---- MODULE Spec2Model ----
(***************************************************************************)
(* Model of the receipt field-normalisation and derivation engine of       *)
(* src/azure_receipt_analyzer.py (class AzureReceiptAnalyzer).             *)
(*                                                                         *)
(* Representation of Python values:                                        *)
(*   None            NoneV                                                 *)
(*   a str           Str(s), s a sequence of one-character strings         *)
(*   a float         Num(n), n the value in hundredths (12.34 is 1234)     *)
(*   an int          PyInt(n), n the value in hundredths (3 is 300)          *)
(* Floats are modelled as exact decimals with two fractional digits; the   *)
(* texts the model parses carry at most two fractional digits.  round(x,2) *)
(* is the nearest hundredth, a tie rounding to the even hundredth.         *)
(***************************************************************************)
EXTENDS Integers, Sequences, FiniteSets, TLC

\* ------------------------------------------------------------------------
\* Python values
\* ------------------------------------------------------------------------
NoneV == [t |-> "none"]

Str(s) == [t |-> "str", s |-> s]

Num(n) == [t |-> "num", n |-> n]

PyInt(n) == [t |-> "int", n |-> n]

IsNone(v) == v.t = "none"

IsStr(v) == v.t = "str"

\* isinstance(v, (int, float))
IsNumber(v) == v.t \in {"num", "int"}

\* the empty str ""
EmptyStr == Str(<< >>)

\* bool(v) for None, str and numbers
Truthy(v) ==
  CASE v.t = "none" -> FALSE
    [] v.t = "str" -> Len(v.s) > 0
    [] OTHER -> v.n # 0

\* ------------------------------------------------------------------------
\* Characters and text
\* ------------------------------------------------------------------------
UpperCase == << "A", "B", "C", "D", "E", "F", "G", "H", "I", "J", "K", "L", "M", "N", "O", "P", "Q", "R", "S", "T", "U", "V", "W", "X", "Y", "Z" >>

LowerCase == << "a", "b", "c", "d", "e", "f", "g", "h", "i", "j", "k", "l", "m", "n", "o", "p", "q", "r", "s", "t", "u", "v", "w", "x", "y", "z" >>

DigitChars == << "0", "1", "2", "3", "4", "5", "6", "7", "8", "9" >>

Range(f) == { f[i] : i \in DOMAIN f }

Letters == Range(UpperCase) \cup Range(LowerCase)

Digits == Range(DigitChars)

\* the characters \s matches among those the model uses
Whitespace == { " " }

DigitVal(c) == (CHOOSE i \in DOMAIN DigitChars : DigitChars[i] = c) - 1

\* str.upper(), one character
UpperChar(c) ==
  IF c \in Range(LowerCase)
  THEN UpperCase[CHOOSE i \in DOMAIN LowerCase : LowerCase[i] = c]
  ELSE c

\* str.lower(), one character
LowerChar(c) ==
  IF c \in Range(UpperCase)
  THEN LowerCase[CHOOSE i \in DOMAIN UpperCase : UpperCase[i] = c]
  ELSE c

Upper(s) == [i \in DOMAIN s |-> UpperChar(s[i])]

Lower(s) == [i \in DOMAIN s |-> LowerChar(s[i])]

\* s[i:] starts with sub
MatchAt(sub, s, i) ==
  /\ i + Len(sub) - 1 <= Len(s)
  /\ \A k \in 1..Len(sub) : s[i + k - 1] = sub[k]

\* the Python test  sub in s
Contains(sub, s) == \E i \in 1..(Len(s) + 1) : MatchAt(sub, s, i)

\* ''.join(c for c in s if keep(c))
RECURSIVE Filter(_, _)
Filter(s, keep) ==
  IF s = << >> THEN << >>
  ELSE (IF Head(s) \in keep THEN << Head(s) >> ELSE << >>) \o Filter(Tail(s), keep)

\* re.sub(r"[...]", "", s): the characters of drop removed
RECURSIVE Strip(_, _)
Strip(s, drop) ==
  IF s = << >> THEN << >>
  ELSE (IF Head(s) \in drop THEN << >> ELSE << Head(s) >>) \o Strip(Tail(s), drop)

Count(c, s) == Cardinality({ i \in DOMAIN s : s[i] = c })

\* ------------------------------------------------------------------------
\* float(str), str(float), str(int), round
\* ------------------------------------------------------------------------
RECURSIVE DigitsVal(_)
DigitsVal(s) ==
  IF s = << >> THEN 0 ELSE DigitsVal(SubSeq(s, 1, Len(s) - 1)) * 10 + DigitVal(s[Len(s)])

\* str.strip() for whitespace
RECURSIVE Trim(_)
Trim(s) ==
  IF s = << >> THEN s
  ELSE IF Head(s) \in Whitespace THEN Trim(Tail(s))
  ELSE IF s[Len(s)] \in Whitespace THEN Trim(SubSeq(s, 1, Len(s) - 1))
  ELSE s

SignLen(s) == IF Len(s) > 0 /\ s[1] \in {"-", "+"} THEN 1 ELSE 0

\* the text float() reads after the sign; float() ignores surrounding whitespace
Unsigned(s) == SubSeq(Trim(s), SignLen(Trim(s)) + 1, Len(Trim(s)))

\* float(s) does not raise ValueError
FloatOk(s) ==
  LET b == Unsigned(s) IN
    /\ \A i \in DOMAIN b : b[i] \in Digits \cup {"."}
    /\ Count(".", b) <= 1
    /\ \E i \in DOMAIN b : b[i] \in Digits

\* float(s), in hundredths
FloatVal(s) ==
  LET b == Unsigned(s)
      dot == IF Count(".", b) = 0 THEN Len(b) + 1
             ELSE CHOOSE i \in DOMAIN b : b[i] = "."
      whole == DigitsVal(SubSeq(b, 1, dot - 1))
      frac == SubSeq(b, dot + 1, Len(b))
      f1 == IF Len(frac) >= 1 THEN DigitVal(frac[1]) ELSE 0
      f2 == IF Len(frac) >= 2 THEN DigitVal(frac[2]) ELSE 0
      mag == whole * 100 + f1 * 10 + f2
  IN IF SignLen(Trim(s)) = 1 /\ Trim(s)[1] = "-" THEN 0 - mag ELSE mag

RECURSIVE NatStr(_)
NatStr(k) ==
  IF k < 10 THEN << DigitChars[k + 1] >>
  ELSE NatStr(k \div 10) \o << DigitChars[(k % 10) + 1] >>

Abs(n) == IF n < 0 THEN 0 - n ELSE n

\* str(x) of a float x given in hundredths: "15.0", "3.25", "-2.5"
FloatStr(n) ==
  LET m == Abs(n)
      f == m % 100
      fs == IF f % 10 = 0 THEN << DigitChars[(f \div 10) + 1] >>
            ELSE << DigitChars[(f \div 10) + 1], DigitChars[(f % 10) + 1] >>
  IN (IF n < 0 THEN << "-" >> ELSE << >>) \o NatStr(m \div 100) \o << "." >> \o fs

\* str(k) of an int k given in hundredths (a multiple of 100)
IntStr(n) == (IF n < 0 THEN << "-" >> ELSE << >>) \o NatStr(Abs(n) \div 100)

\* str(v)
PyStr(v) ==
  CASE v.t = "str" -> v.s
    [] v.t = "num" -> FloatStr(v.n)
    [] v.t = "int" -> IntStr(v.n)
    [] OTHER -> << "N", "o", "n", "e" >>

\* the integer nearest to a / b (b > 0), a tie going to the even one
RoundDiv(a, b) ==
  LET q == a \div b
      r == a % b
  IN IF 2 * r < b THEN q
     ELSE IF 2 * r > b THEN q + 1
     ELSE IF q % 2 = 0 THEN q ELSE q + 1

\* ------------------------------------------------------------------------
\* Raw fields of the remote service (DocumentField objects)
\* ------------------------------------------------------------------------
\* A scalar field.  kind: the declared kind; content: the display text
\* (NoneV or Str); accessor: the typed value_* attribute the object carries
\* ("" when it carries none); typed: the value of that attribute.
\* raises: reading the object raises (a malformed field).
Field(kind, content, accessor, typed) ==
  [raises |-> FALSE, kind |-> kind, content |-> content, accessor |-> accessor,
   typed |-> typed, array |-> "absent", value_array |-> << >>]

\* a field whose attributes raise when read
BadField ==
  [raises |-> TRUE, kind |-> "string", content |-> NoneV, accessor |-> "",
   typed |-> NoneV, array |-> "absent", value_array |-> << >>]

\* An array field.  array: "list" (value_array is a list), "none"
\* (value_array is None) or "absent" (no such attribute).
ArrayField(array, elems) ==
  [raises |-> FALSE, kind |-> "array", content |-> NoneV, accessor |-> "",
   typed |-> NoneV, array |-> array, value_array |-> elems]

\* An array element.  object: "map" (value_object maps names to fields),
\* "none" (value_object is None) or "absent" (no such attribute).
Elem(object, map) == [object |-> object, value_object |-> map]

NoMap == [k \in {} |-> NoneV]

TextField(s) == Field("string", Str(s), "value_string", Str(s))

\* AzureReceiptAnalyzer._extract_field_value; the caller handles raises
ExtractFieldValue(field) ==
  IF field = NoneV THEN NoneV
  ELSE IF field.content # NoneV THEN field.content
  ELSE CASE field.kind = "string" /\ field.accessor = "value_string" -> field.typed
         [] field.kind = "number" /\ field.accessor = "value_number" -> field.typed
         [] field.kind = "integer" /\ field.accessor = "value_integer" -> field.typed
         [] field.kind = "date" /\ field.accessor = "value_date" -> Str(PyStr(field.typed))
         [] field.kind = "phoneNumber" /\ field.accessor = "value_phone_number" -> field.typed
         [] field.kind = "countryRegion" /\ field.accessor = "value_country_region" -> field.typed
         [] field.kind = "currency" /\ field.accessor = "value_currency" -> field.typed
         [] field.kind = "address" /\ field.accessor = "value_address" -> field.content
         [] OTHER -> NoneV

\* ------------------------------------------------------------------------
\* Value normalizers
\* ------------------------------------------------------------------------
\* the characters re.sub(r"[$,\sA-Za-z]", "", ...) removes
CurrencyNoise == {"$", ","} \cup Whitespace \cup Letters

\* AzureReceiptAnalyzer._clean_currency: NoneV or Num(hundredths)
CleanCurrency(value) ==
  IF value = NoneV \/ value = EmptyStr THEN NoneV
  ELSE IF IsNumber(value) THEN Num(value.n)
  ELSE LET clean_value == Strip(PyStr(value), CurrencyNoise) IN
    IF clean_value = << >> THEN NoneV
    ELSE IF Count("-", clean_value) > 1 THEN NoneV
    ELSE IF Count("-", clean_value) > 0 /\ clean_value[1] # "-" THEN NoneV
    ELSE IF FloatOk(clean_value) THEN Num(FloatVal(clean_value))
    ELSE NoneV

\* utils.normalize_currency: NoneV or Num(hundredths); re.sub on anything
\* but a text raises TypeError, which the function catches
NormalizeCurrency(amount) ==
  IF ~IsStr(amount) THEN NoneV
  ELSE LET cleaned == Filter(amount.s, Digits \cup {"."}) IN
    IF FloatOk(cleaned) THEN Num(FloatVal(cleaned)) ELSE NoneV

\* the rendering at the end of _clean_quantity, qty in hundredths
QuantityStr(qty) == IF qty % 100 = 0 THEN IntStr(qty) ELSE FloatStr(qty)

\* AzureReceiptAnalyzer._clean_quantity: a text
CleanQuantity(value) ==
  IF value = NoneV \/ value = EmptyStr THEN << "1" >>
  ELSE IF IsNumber(value) THEN QuantityStr(value.n)
  ELSE LET clean_value == Filter(PyStr(value), Digits \cup {"."}) IN
    IF clean_value = << >> THEN QuantityStr(100)
    ELSE IF FloatOk(clean_value) THEN QuantityStr(FloatVal(clean_value))
    ELSE << "1" >>

\* ------------------------------------------------------------------------
\* The HST/GST number pattern
\*   (?:HST|GST)\s*#?\s*(\d{9})\s*(?:RT\d{4})?     re.IGNORECASE
\* ------------------------------------------------------------------------
\* the first position >= j of s that holds no whitespace
SkipSpace(s, j) ==
  CHOOSE k \in j..(Len(s) + 1) :
    /\ \A m \in j..(k - 1) : s[m] \in Whitespace
    /\ k = Len(s) + 1 \/ s[k] \notin Whitespace

DigitRun(s, j, n) == j + n - 1 <= Len(s) /\ \A m \in j..(j + n - 1) : s[m] \in Digits

\* where the nine digits start when the pattern is tried at position i
HstDigitsAt(s, i) ==
  LET a == SkipSpace(s, i + 3)
      b == IF a <= Len(s) /\ s[a] = "#" THEN a + 1 ELSE a
  IN SkipSpace(s, b)

HstMatchesAt(s, i) ==
  /\ i + 2 <= Len(s)
  /\ Upper(SubSeq(s, i, i + 2)) \in { << "H", "S", "T" >>, << "G", "S", "T" >> }
  /\ DigitRun(s, HstDigitsAt(s, i), 9)

\* the position after the match that starts at i
HstMatchEnd(s, i) ==
  LET e == SkipSpace(s, HstDigitsAt(s, i) + 9) IN
    IF /\ e + 1 <= Len(s)
       /\ Upper(SubSeq(s, e, e + 1)) = << "R", "T" >>
       /\ DigitRun(s, e + 2, 4)
    THEN e + 6 ELSE e

\* re.search(...) finds a match
HstFound(s) == \E i \in 1..Len(s) : HstMatchesAt(s, i)

\* match.group(0) of the leftmost match
HstGroup0(s) ==
  LET i == CHOOSE i \in 1..Len(s) :
             HstMatchesAt(s, i) /\ \A k \in 1..(i - 1) : ~HstMatchesAt(s, k)
  IN SubSeq(s, i, HstMatchEnd(s, i) - 1)

\* ------------------------------------------------------------------------
\* The result structure
\* ------------------------------------------------------------------------
\* str(value or '')
StrOr(value) == IF Truthy(value) THEN PyStr(value) ELSE << >>

\* str(x) if x is not None else ""
StrOpt(x) == IF x = NoneV THEN << >> ELSE FloatStr(x.n)

Unknown == << "u", "n", "k", "n", "o", "w", "n" >>

\* AzureReceiptAnalyzer._get_empty_result
GetEmptyResult(id) ==
  [image_id |-> IF Truthy(id) THEN id ELSE Str(Unknown),
   extracted_text |-> << >>,
   receipt_type |-> NoneV,
   merchant |-> [name |-> << >>, address |-> << >>, phone |-> << >>,
                 tax_id |-> << >>, gst_hst_number |-> << >>],
   transaction |-> [date |-> << >>, time |-> << >>, total |-> << >>,
                    subtotal |-> << >>, tax |-> << >>,
                    tax_details |-> [total_tax |-> << >>, tax_rates |-> << >>,
                                     tax_amounts |-> << >>, tax_types |-> << >>,
                                     has_hst |-> FALSE]],
   items |-> << >>,
   totals |-> << >>,
   payment |-> [type |-> << >>, amount |-> << >>, card_number |-> << >>,
                change_due |-> << >>]]

\* the outermost handler missing: the exception reaches the caller
CriticalFaultPropagates(id) == [outcome |-> "raised", result |-> GetEmptyResult(id)]

\* the outermost handler of _process_receipt_result: the exception is
\* logged and the empty structure returned
CriticalFault(id) == [outcome |-> "returned", result |-> GetEmptyResult(id)]

\* ------------------------------------------------------------------------
\* Item Builder (the body of the Items loop)
\* ------------------------------------------------------------------------
\* primary_rate when no rate was recorded, in hundredths
DefaultRate == 13

\* the nested field object cannot be read, or a field that is read raises
ElemRaises(e, keys) ==
  \/ e.object = "none"
  \/ \E k \in keys \cap DOMAIN e.value_object : e.value_object[k].raises

\* _clean_currency(_extract_field_value(obj[key])) for a key of obj
CurrencyOf(obj, key) ==
  IF key \in DOMAIN obj THEN CleanCurrency(ExtractFieldValue(obj[key])) ELSE NoneV

\* the inference multiplies where it should divide
InferPriceMultiplies(qty, price, total) ==
  IF total # << >> /\ price = << >> /\ qty # << >>
  THEN IF FloatOk(qty) /\ FloatOk(total) /\ FloatVal(qty) > 0
       THEN FloatStr(RoundDiv(FloatVal(total) * FloatVal(qty), 100))
       ELSE price
  ELSE price

\* the unit price after the inference step; qty, price, total are texts
InferPrice(qty, price, total) ==
  IF total # << >> /\ price = << >> /\ qty # << >>
  THEN IF FloatOk(qty) /\ FloatOk(total) /\ FloatVal(qty) > 0
       THEN FloatStr(RoundDiv(100 * FloatVal(total), FloatVal(qty)))
       ELSE price
  ELSE price

\* the line total after the inference step
InferTotal(qty, price, total) ==
  IF price # << >> /\ total = << >> /\ qty # << >>
  THEN IF FloatOk(qty) /\ FloatOk(price)
       THEN FloatStr(RoundDiv(FloatVal(price) * FloatVal(qty), 100))
       ELSE total
  ELSE total

\* the keywords looked for in the description as written, not upper-cased
TaxStatusCaseSensitive(description, has_hst) ==
  IF Contains(<< "Z", "E", "R", "O" >>, description)
     \/ Contains(<< "0", "%" >>, description)
  THEN "ZERO-RATED"
  ELSE IF Contains(<< "E", "X", "E", "M", "P", "T" >>, description)
  THEN "EXEMPT"
  ELSE IF has_hst THEN "TAXABLE" ELSE "UNKNOWN"

\* item_tax_status
TaxStatus(description, has_hst) ==
  LET item_desc_upper == Upper(description) IN
    IF Contains(<< "Z", "E", "R", "O" >>, item_desc_upper)
       \/ Contains(<< "0", "%" >>, item_desc_upper)
    THEN "ZERO-RATED"
    ELSE IF Contains(<< "E", "X", "E", "M", "P", "T" >>, item_desc_upper)
    THEN "EXEMPT"
    ELSE IF has_hst THEN "TAXABLE" ELSE "UNKNOWN"

\* the tax amount computed whatever the status of the item
TaxBranchAnyStatus(status, has_hst, total) == has_hst /\ total # << >>

\* the branch that computes the item's tax amount is taken
TaxBranch(status, has_hst, total) == status = "TAXABLE" /\ has_hst /\ total # << >>

\* line_total_f * primary_rate does not raise (a recorded rate may be None)
TaxComputable(tax_rates, total) ==
  FloatOk(total) /\ (tax_rates = << >> \/ tax_rates[1] # NoneV)

PrimaryRate(tax_rates) == IF tax_rates # << >> THEN tax_rates[1].n ELSE DefaultRate

ItemTaxAmount(status, has_hst, tax_rates, total) ==
  IF TaxBranch(status, has_hst, total) /\ TaxComputable(tax_rates, total)
  THEN FloatStr(RoundDiv(FloatVal(total) * PrimaryRate(tax_rates), 100))
  ELSE << >>

\* the final price left at the line total when a tax amount is computed
ItemFinalPriceWithoutTax(status, has_hst, tax_rates, total) == total

ItemFinalPrice(status, has_hst, tax_rates, total) ==
  IF TaxBranch(status, has_hst, total) /\ TaxComputable(tax_rates, total)
  THEN FloatStr(FloatVal(total)
                + RoundDiv(FloatVal(total) * PrimaryRate(tax_rates), 100))
  ELSE total

\* re.search(r'YOU SAVED \$?([\d.]+)', description, re.IGNORECASE)
YouSaved == << "Y", "O", "U", " ", "S", "A", "V", "E", "D", " " >>

\* where group 1 starts when the pattern is tried at position i
SavedAmountAt(s, i) ==
  IF i + 10 <= Len(s) /\ s[i + 10] = "$" THEN i + 11 ELSE i + 10

SavedMatchesAt(s, i) ==
  /\ MatchAt(YouSaved, Upper(s), i)
  /\ SavedAmountAt(s, i) <= Len(s)
  /\ s[SavedAmountAt(s, i)] \in Digits \cup {"."}

\* group 1 of the leftmost match: the longest run of digits and dots
SavedGroup1(s) ==
  LET i == CHOOSE i \in 1..Len(s) :
             SavedMatchesAt(s, i) /\ \A k \in 1..(i - 1) : ~SavedMatchesAt(s, k)
      a == SavedAmountAt(s, i)
      e == CHOOSE e \in a..Len(s) :
             /\ \A m \in a..e : s[m] \in Digits \cup {"."}
             /\ e = Len(s) \/ s[e + 1] \notin Digits \cup {"."}
  IN SubSeq(s, a, e)

ItemSavings(description) ==
  IF \E i \in 1..Len(description) : SavedMatchesAt(description, i)
  THEN StrOpt(CleanCurrency(Str(SavedGroup1(description))))
  ELSE << >>

ItemKeys == {"Description", "Quantity", "Price", "TotalPrice", "Discount"}

\* item_dict of an element without a nested field object
DefaultItem ==
  [description |-> << >>, quantity |-> << "1" >>, price |-> << >>, total |-> << >>,
   tax_status |-> "UNKNOWN", tax_amount |-> << >>, final_price |-> << >>,
   discount |-> << >>, savings |-> << >>]

\* item_dict of an element with the nested field object obj
BuildItem(obj, has_hst, tax_rates) ==
  LET description == IF "Description" \in DOMAIN obj
                     THEN StrOr(ExtractFieldValue(obj["Description"])) ELSE << >>
      quantity == IF "Quantity" \in DOMAIN obj
                  THEN CleanQuantity(ExtractFieldValue(obj["Quantity"])) ELSE << "1" >>
      price0 == StrOpt(CurrencyOf(obj, "Price"))
      total0 == StrOpt(CurrencyOf(obj, "TotalPrice"))
      price == InferPrice(quantity, price0, total0)
      total == InferTotal(quantity, price0, total0)
      status == TaxStatus(description, has_hst)
  IN [description |-> description, quantity |-> quantity, price |-> price,
      total |-> total, tax_status |-> status,
      tax_amount |-> ItemTaxAmount(status, has_hst, tax_rates, total),
      final_price |-> ItemFinalPrice(status, has_hst, tax_rates, total),
      discount |-> StrOpt(CurrencyOf(obj, "Discount")),
      savings |-> ItemSavings(description)]

\* every item added, with or without a description
KeepItemAlways(item_dict) == TRUE

\* only items with descriptions are added
KeepItem(item_dict) == item_dict.description # << >>

\* result["items"] after the loop over value_array, which an exception ends
RECURSIVE BuildItems(_, _, _, _)
BuildItems(arr, items, has_hst, tax_rates) ==
  IF arr = << >> THEN items
  ELSE IF ElemRaises(Head(arr), ItemKeys) THEN items
  ELSE LET item_dict == IF Head(arr).object = "map"
                        THEN BuildItem(Head(arr).value_object, has_hst, tax_rates)
                        ELSE DefaultItem
       IN BuildItems(Tail(arr),
                     IF KeepItem(item_dict) THEN Append(items, item_dict) ELSE items,
                     has_hst, tax_rates)

\* the loop over an array is left by an exception
ArrayRaises(arr, keys) == \E k \in DOMAIN arr : ElemRaises(arr[k], keys)

\* ------------------------------------------------------------------------
\* Tax Reconciler (the body of the TaxDetails loop)
\* ------------------------------------------------------------------------
TaxKeys == {"Description", "Rate", "Amount"}

\* the rate of one breakdown entry: NoneV or Num(hundredths)
TaxRate(obj) ==
  IF "Rate" \notin DOMAIN obj THEN NoneV
  ELSE LET rate_val == ExtractFieldValue(obj["Rate"]) IN
    IF ~Truthy(rate_val) THEN NoneV
    ELSE IF IsStr(rate_val) /\ Contains(<< "%" >>, rate_val.s)
    THEN LET r == Strip(rate_val.s, {"%"}) IN
           IF FloatOk(r) THEN Num(RoundDiv(FloatVal(r), 100)) ELSE NoneV
    ELSE IF IsNumber(rate_val)
    THEN IF rate_val.n > 100 THEN Num(RoundDiv(rate_val.n, 100)) ELSE Num(rate_val.n)
    ELSE NoneV

TaxType(obj) ==
  IF "Description" \in DOMAIN obj THEN StrOr(ExtractFieldValue(obj["Description"]))
  ELSE << >>

\* any(t in tax_type.upper() for t in ['HST', 'GST', 'PST'])
IsRegionalType(tax_type) ==
  \E lbl \in { << "H", "S", "T" >>, << "G", "S", "T" >>, << "P", "S", "T" >> } :
    Contains(lbl, Upper(tax_type))

\* the lists at the start of the TaxDetails branch
TaxReset(has_hst) ==
  [tax_amounts |-> << >>, tax_types |-> << >>, tax_rates |-> << >>,
   current_total_tax |-> 0, has_hst |-> has_hst]

\* an entry without an amount recorded with the amount zero
TaxStepZeroFills(acc, tax_item) ==
  IF tax_item.object # "map" THEN acc
  ELSE LET tax_obj == tax_item.value_object
           amount == CurrencyOf(tax_obj, "Amount")
           filled == IF amount = NoneV THEN 0 ELSE amount.n
       IN [tax_amounts |-> Append(acc.tax_amounts, filled),
           tax_types |-> Append(acc.tax_types, TaxType(tax_obj)),
           tax_rates |-> Append(acc.tax_rates, TaxRate(tax_obj)),
           current_total_tax |-> acc.current_total_tax + filled,
           has_hst |-> acc.has_hst \/ IsRegionalType(TaxType(tax_obj))]

\* one iteration of the loop over field.value_array
TaxStep(acc, tax_item) ==
  IF tax_item.object # "map" THEN acc
  ELSE LET tax_obj == tax_item.value_object
           amount == CurrencyOf(tax_obj, "Amount")
       IN IF amount = NoneV THEN acc
          ELSE [tax_amounts |-> Append(acc.tax_amounts, amount.n),
                tax_types |-> Append(acc.tax_types, TaxType(tax_obj)),
                tax_rates |-> Append(acc.tax_rates, TaxRate(tax_obj)),
                current_total_tax |-> acc.current_total_tax + amount.n,
                has_hst |-> acc.has_hst \/ IsRegionalType(TaxType(tax_obj))]

\* the loop, which an exception ends
RECURSIVE TaxLoop(_, _)
TaxLoop(acc, arr) ==
  IF arr = << >> THEN acc
  ELSE IF ElemRaises(Head(arr), TaxKeys) THEN acc
  ELSE TaxLoop(TaxStep(acc, Head(arr)), Tail(arr))

\* ------------------------------------------------------------------------
\* Payment details (the body of the PaymentDetails loop)
\* ------------------------------------------------------------------------
Masked == << "*", "*", "*", "*" >>

\* the keys of payment_obj that one iteration reads
PaymentReads(pay) ==
  (IF pay.type = << >> THEN {"PaymentType"} ELSE {})
    \cup (IF pay.amount = << >> THEN {"Amount"} ELSE {})
    \cup (IF pay.card_number = << >> THEN {"CreditCardLast4Digits"} ELSE {})

\* result["payment"] after the first of the three tests
PayType(pay, obj) ==
  IF pay.type = << >> /\ "PaymentType" \in DOMAIN obj
  THEN [pay EXCEPT !.type = StrOr(ExtractFieldValue(obj["PaymentType"]))]
  ELSE pay

PayAmount(pay, obj) ==
  IF pay.amount = << >> /\ "Amount" \in DOMAIN obj
  THEN [pay EXCEPT !.amount = StrOpt(CurrencyOf(obj, "Amount"))]
  ELSE pay

PayCard(pay, obj) ==
  IF pay.card_number = << >> /\ "CreditCardLast4Digits" \in DOMAIN obj
  THEN [pay EXCEPT !.card_number =
          Masked \o StrOr(ExtractFieldValue(obj["CreditCardLast4Digits"]))]
  ELSE pay

\* the iteration raises: value_object is None and a membership test is
\* reached, or a field that is read raises
PaymentElemRaises(pay, e) ==
  \/ e.object = "none" /\ PaymentReads(pay) # {}
  \/ e.object = "map" /\ \E k \in PaymentReads(pay) \cap DOMAIN e.value_object :
                           e.value_object[k].raises

RECURSIVE PaymentLoop(_, _)
PaymentLoop(pay, arr) ==
  IF arr = << >> THEN pay
  ELSE IF PaymentElemRaises(pay, Head(arr)) THEN pay
  ELSE IF Head(arr).object # "map" THEN PaymentLoop(pay, Tail(arr))
  ELSE PaymentLoop(PayCard(PayAmount(PayType(pay, Head(arr).value_object),
                                     Head(arr).value_object),
                           Head(arr).value_object),
                   Tail(arr))

RECURSIVE PaymentLoopRaises(_, _)
PaymentLoopRaises(pay, arr) ==
  IF arr = << >> THEN FALSE
  ELSE IF PaymentElemRaises(pay, Head(arr)) THEN TRUE
  ELSE IF Head(arr).object # "map" THEN PaymentLoopRaises(pay, Tail(arr))
  ELSE PaymentLoopRaises(PayCard(PayAmount(PayType(pay, Head(arr).value_object),
                                           Head(arr).value_object),
                                 Head(arr).value_object),
                         Tail(arr))

\* ------------------------------------------------------------------------
\* Receipt Assembler: _process_receipt_result as a state machine
\* ------------------------------------------------------------------------
VARIABLES
  receipts,          \* the AnalyzeResult passed in
  image_id,          \* the image_id passed in
  pc,                \* "start", "preprocess", "loop" or "done"
  i,                 \* position of the loop over doc.fields.items()
  result,            \* the result dict
  outcome,           \* "running", "returned" or "raised"
  total_tax, tax_rates, tax_amounts, tax_types, subtotal, total,
  has_hst, hst_number_found,
  skipped,           \* names of the fields whose processing raised
  call               \* a call of one of the helper functions on its own

vars == << receipts, image_id, pc, i, result, outcome, total_tax, tax_rates,
           tax_amounts, tax_types, subtotal, total, has_hst, hst_number_found,
           call,
           skipped >>

locals == << total_tax, tax_rates, tax_amounts, tax_types, subtotal, total,
             has_hst, hst_number_found >>

\* receipts.documents[0]
Doc == receipts.documents[1]

\* list(doc.fields.items())
DocFields == Doc.fields

FieldNamed(name) == DocFields[CHOOSE k \in DOMAIN DocFields : DocFields[k][1] = name][2]

HasField(name) == \E k \in DOMAIN DocFields : DocFields[k][1] = name

\* reading the field object raises
Bad(field) == field # NoneV /\ field.raises

\* hasattr(field, 'value_array')
HasValueArray(field) == field # NoneV /\ field.array # "absent"

\* hasattr(field, 'value_array') and field.value_array
TruthyArray(field) ==
  HasValueArray(field) /\ field.array = "list" /\ field.value_array # << >>

\* the basic information set after the check for fields
BasicResultTooLate == [GetEmptyResult(image_id) EXCEPT !.image_id = image_id]

\* lines 295-323: the result is created and the structure checked
BasicResult ==
  [GetEmptyResult(image_id) EXCEPT
     !.image_id = image_id,
     !.extracted_text = StrOr(receipts.content),
     !.receipt_type = IF Truthy(Doc.doc_type) THEN Doc.doc_type ELSE NoneV]

CheckResult ==
  /\ pc = "start"
  /\ IF receipts.state = "none"
     THEN /\ result' = GetEmptyResult(image_id)
          /\ outcome' = "returned"
          /\ pc' = "done"
     ELSE IF receipts.state = "malformed"
     THEN /\ result' = CriticalFault(image_id).result
          /\ outcome' = CriticalFault(image_id).outcome
          /\ pc' = "done"
     ELSE IF receipts.documents = << >>
     THEN /\ result' = GetEmptyResult(image_id)
          /\ outcome' = "returned"
          /\ pc' = "done"
     ELSE IF Doc.fields_state = "none"
     THEN \* doc.fields.keys() in the debug line raises
          /\ result' = CriticalFault(image_id).result
          /\ outcome' = CriticalFault(image_id).outcome
          /\ pc' = "done"
     ELSE IF Doc.fields_state = "absent" \/ Doc.fields = << >>
     THEN /\ result' = BasicResult
          /\ outcome' = "returned"
          /\ pc' = "done"
     ELSE /\ result' = BasicResult
          /\ outcome' = "running"
          /\ pc' = "preprocess"
  /\ UNCHANGED << receipts, image_id, i, locals, skipped, call >>

\* lines 325-351: the tax variables and the early look at MerchantTaxId
TaxIdText == StrOr(ExtractFieldValue(FieldNamed("MerchantTaxId")))

TaxIdMatches == HasField("MerchantTaxId") /\ HstFound(TaxIdText)

\* the value stored as the generic tax id on a match as well
PreprocessMerchantKeepsTaxId(merchant) ==
  IF ~HasField("MerchantTaxId") \/ TaxIdText = << >> THEN merchant
  ELSE IF HstFound(TaxIdText)
  THEN [merchant EXCEPT !.gst_hst_number = HstGroup0(TaxIdText), !.tax_id = TaxIdText]
  ELSE [merchant EXCEPT !.tax_id = TaxIdText]

\* the merchant after the early look at MerchantTaxId
PreprocessMerchant(merchant) ==
  IF ~HasField("MerchantTaxId") \/ TaxIdText = << >> THEN merchant
  ELSE IF HstFound(TaxIdText)
  THEN [merchant EXCEPT !.gst_hst_number = HstGroup0(TaxIdText)]
  ELSE [merchant EXCEPT !.tax_id = TaxIdText]

PreprocessTaxId ==
  /\ pc = "preprocess"
  /\ total_tax' = NoneV
  /\ tax_rates' = << >>
  /\ tax_amounts' = << >>
  /\ tax_types' = << >>
  /\ subtotal' = NoneV
  /\ total' = NoneV
  /\ IF HasField("MerchantTaxId") /\ Bad(FieldNamed("MerchantTaxId"))
     THEN \* the exception leaves the function through the outermost handler
          /\ result' = CriticalFault(image_id).result
          /\ outcome' = CriticalFault(image_id).outcome
          /\ has_hst' = FALSE
          /\ hst_number_found' = FALSE
          /\ pc' = "done"
     ELSE /\ result' = [result EXCEPT !.merchant = PreprocessMerchant(result.merchant)]
          /\ outcome' = outcome
          /\ has_hst' = TaxIdMatches
          /\ hst_number_found' = TaxIdMatches
          /\ pc' = "loop"
  /\ i' = 1
  /\ UNCHANGED << receipts, image_id, skipped, call >>

\* the body of the loop raises for this field
FieldRaises(field_name, field) ==
  IF Bad(field) THEN TRUE
  ELSE IF field_name = "TaxDetails" /\ TruthyArray(field)
  THEN ArrayRaises(field.value_array, TaxKeys)
  ELSE IF field_name = "PaymentDetails" /\ HasValueArray(field)
  THEN field.array = "none" \/ PaymentLoopRaises(result.payment, field.value_array)
  ELSE IF field_name = "Items" /\ HasValueArray(field)
  THEN field.array = "none" \/ ArrayRaises(field.value_array, ItemKeys)
  ELSE FALSE

\* the result dict after one iteration of the loop over the fields
ResultAfter(field_name, field) ==
  IF Bad(field) THEN result
  ELSE LET value == ExtractFieldValue(field)
           cleaned == CleanCurrency(value)
       IN CASE field_name = "MerchantName" ->
                 [result EXCEPT !.merchant.name = StrOr(value)]
            [] field_name = "MerchantAddress" ->
                 [result EXCEPT !.merchant.address = StrOr(value)]
            [] field_name = "MerchantPhoneNumber" ->
                 [result EXCEPT !.merchant.phone = StrOr(value)]
            [] field_name = "TransactionDate" ->
                 [result EXCEPT !.transaction.date = StrOr(value)]
            [] field_name = "TransactionTime" ->
                 [result EXCEPT !.transaction.time = StrOr(value)]
            [] field_name = "Total" /\ cleaned # NoneV ->
                 [result EXCEPT !.transaction.total = StrOpt(cleaned)]
            [] field_name = "Subtotal" /\ cleaned # NoneV ->
                 [result EXCEPT !.transaction.subtotal = StrOpt(cleaned)]
            [] field_name = "PaymentDetails" /\ HasValueArray(field)
               /\ field.array = "list" ->
                 [result EXCEPT !.payment = PaymentLoop(result.payment, field.value_array)]
            [] field_name = "AmountTendered" /\ result.payment.amount = << >>
               /\ cleaned # NoneV ->
                 [result EXCEPT !.payment.amount = StrOpt(cleaned)]
            [] field_name = "ChangeDue" /\ cleaned # NoneV ->
                 [result EXCEPT !.payment.change_due = StrOpt(cleaned)]
            [] field_name = "PaymentType" /\ result.payment.type = << >> ->
                 [result EXCEPT !.payment.type = StrOr(value)]
            [] field_name = "Items" /\ HasValueArray(field) ->
                 [result EXCEPT !.items =
                    IF field.array = "list"
                    THEN BuildItems(field.value_array, << >>, has_hst, tax_rates)
                    ELSE << >>]
            [] OTHER -> result

\* the tax lists after the TaxDetails branch
TaxAfter(field) == TaxLoop(TaxReset(has_hst), field.value_array)

\* the TotalTax branch stores a parsed amount
TotalTaxParsed(field_name, field) ==
  ~Bad(field) /\ field_name = "TotalTax"
  /\ CleanCurrency(ExtractFieldValue(field)) # NoneV

\* the TaxDetails branch is entered
TaxDetailsEntered(field_name, field) ==
  ~Bad(field) /\ field_name = "TaxDetails" /\ TruthyArray(field)

\* total_tax after one iteration
TotalTaxAfter(field_name, field) ==
  IF TotalTaxParsed(field_name, field)
  THEN CleanCurrency(ExtractFieldValue(field))
  ELSE IF TaxDetailsEntered(field_name, field)
          /\ ~ArrayRaises(field.value_array, TaxKeys)
  THEN Num(TaxAfter(field).current_total_tax)
  ELSE total_tax

\* the TotalTax branch adds the synthesized entry
Synthesizes(field_name, field) ==
  TotalTaxParsed(field_name, field) /\ hst_number_found /\ tax_amounts = << >>

ProcessField ==
  /\ pc = "loop"
  /\ i <= Len(DocFields)
  /\ LET field_name == DocFields[i][1]
         field == DocFields[i][2]
     IN /\ result' = ResultAfter(field_name, field)
        /\ total_tax' = TotalTaxAfter(field_name, field)
        /\ tax_amounts' =
             IF Synthesizes(field_name, field)
             THEN Append(tax_amounts, CleanCurrency(ExtractFieldValue(field)).n)
             ELSE IF TaxDetailsEntered(field_name, field)
             THEN TaxAfter(field).tax_amounts
             ELSE tax_amounts
        /\ tax_types' =
             IF Synthesizes(field_name, field)
             THEN Append(tax_types, << "H", "S", "T", "/", "G", "S", "T" >>)
             ELSE IF TaxDetailsEntered(field_name, field)
             THEN TaxAfter(field).tax_types
             ELSE tax_types
        /\ tax_rates' =
             IF TaxDetailsEntered(field_name, field)
             THEN TaxAfter(field).tax_rates
             ELSE tax_rates
        /\ has_hst' =
             IF TaxDetailsEntered(field_name, field)
             THEN TaxAfter(field).has_hst
             ELSE has_hst
        /\ total' =
             IF ~Bad(field) /\ field_name = "Total"
                /\ CleanCurrency(ExtractFieldValue(field)) # NoneV
             THEN CleanCurrency(ExtractFieldValue(field))
             ELSE total
        /\ subtotal' =
             IF ~Bad(field) /\ field_name = "Subtotal"
                /\ CleanCurrency(ExtractFieldValue(field)) # NoneV
             THEN CleanCurrency(ExtractFieldValue(field))
             ELSE subtotal
        /\ skipped' = IF FieldRaises(field_name, field)
                      THEN skipped \cup {field_name} ELSE skipped
  /\ i' = i + 1
  /\ UNCHANGED << receipts, image_id, pc, outcome, hst_number_found, call >>

\* the rates, amounts and types stored in tax_details
NotNone(s) == SelectSeq(s, LAMBDA x : x # NoneV)

NonEmpty(s) == SelectSeq(s, LAMBDA x : x # << >>)

\* lines 544-559: the final tax details, and the return
FinalTaxDetails ==
  /\ pc = "loop"
  /\ i > Len(DocFields)
  /\ result' = [result EXCEPT
       !.transaction.tax = StrOpt(total_tax),
       !.transaction.tax_details =
          [total_tax |-> StrOpt(total_tax),
           tax_rates |-> [k \in DOMAIN NotNone(tax_rates) |-> NotNone(tax_rates)[k].n],
           tax_amounts |-> tax_amounts,
           tax_types |-> NonEmpty(tax_types),
           has_hst |-> has_hst]]
  /\ outcome' = "returned"
  /\ pc' = "done"
  /\ UNCHANGED << receipts, image_id, i, locals, skipped, call >>

Next == CheckResult \/ PreprocessTaxId \/ ProcessField \/ FinalTaxDetails

\* ------------------------------------------------------------------------
\* Inputs
\* ------------------------------------------------------------------------
\* the longest field mapping of the general inputs
MaxFields == 2

\* the longest TaxDetails array
MaxTaxEntries == 2

\* the longest Items array
MaxItems == 2

\* the longest list of receipts given to the aggregator and the projectors
MaxReceipts == 2

\* a nested field object: a mapping from names to fields
Obj(map) == Elem("map", map)

Money(s) == Field("currency", Str(s), "value_currency", NoneV)

Number(n) == Field("number", NoneV, "value_number", Num(n))

\* sequences over entries of at most n <<name, field>> pairs with distinct names
RECURSIVE FieldSeqs(_, _)
FieldSeqs(entries, n) ==
  IF n = 0 THEN { << >> }
  ELSE LET shorter == FieldSeqs(entries, n - 1) IN
    shorter \cup
      UNION { { Append(s, e) :
                  e \in { x \in entries : \A k \in DOMAIN s : s[k][1] # x[1] } } :
              s \in shorter }

\* non-empty sequences over elems of at most n elements
Arrays(elems, n) == UNION { [1..k -> elems] : k \in 1..n }

Names(entries) == { e[1] : e \in entries }

\* the HST entry of a tax breakdown: 13%, 1.30
HstEntry ==
  Obj([Description |-> TextField(<< "H", "S", "T" >>), Rate |-> TextField(<< "1", "3", "%" >>),
       Amount |-> Money(<< "$", "1", ".", "3", "0" >>)])

\* an entry that names no regional tax and has no rate
PlainTaxEntry ==
  Obj([Description |-> TextField(<< "T", "a", "x" >>), Amount |-> Money(<< "0", ".", "5", "0" >>)])

\* the breakdown entry HST, 13%, 13.00
HstThirteen ==
  Obj([Description |-> TextField(<< "H", "S", "T" >>), Rate |-> TextField(<< "1", "3", "%" >>),
       Amount |-> Money(<< "1", "3", ".", "0", "0" >>)])

TaxElems ==
  { HstEntry,
    HstThirteen,
    Obj([Description |-> TextField(<< "p", "s", "t" >>), Rate |-> Number(700),
         Amount |-> Money(<< "0", ".", "7", "0" >>)]),
    Obj([Description |-> TextField(<< "G", "S", "T" >>), Rate |-> TextField(<< "5", "%" >>)]),
    Obj([Amount |-> Number(50), Rate |-> TextField(<< "n", "/", "a" >>)]),
    Elem("none", NoMap),
    Elem("absent", NoMap) }

BreadItem ==
  Obj([Description |-> TextField(<< "B", "r", "e", "a", "d" >>), Quantity |-> TextField(<< "1" >>),
       TotalPrice |-> Money(<< "$", "3", ".", "0", "0" >>)])

\* raw items named Bread: quantity, unit price and line total vary
ItemShapes ==
  { [Description |-> TextField(<< "B", "r", "e", "a", "d" >>), Quantity |-> TextField(<< "3", " ", "x" >>),
     TotalPrice |-> Money(<< "1", "0", ".", "0", "0" >>)],
    [Description |-> TextField(<< "B", "r", "e", "a", "d" >>), Quantity |-> Number(250),
     Price |-> Money(<< "3", ".", "0", "1" >>)],
    [Description |-> TextField(<< "B", "r", "e", "a", "d" >>), Quantity |-> TextField(<< "0" >>),
     Price |-> Money(<< "$", "3", ".", "0", "0" >>)],
    [Description |-> TextField(<< "B", "r", "e", "a", "d" >>), Quantity |-> TextField(<< "0" >>),
     TotalPrice |-> Money(<< "$", "1", "0", ".", "0", "0" >>)],
    [Description |-> TextField(<< "B", "r", "e", "a", "d" >>), Quantity |-> TextField(<< "2" >>),
     Price |-> Money(<< "$", "3", ".", "0", "0" >>), TotalPrice |-> Money(<< "$", "1", "0", ".", "0", "0" >>)],
    [Description |-> TextField(<< "B", "r", "e", "a", "d", " ", "Y", "O", "U", " ", "S", "A", "V", "E", "D", " ", "$", "1", ".", "5", "0" >>), Price |-> Money(<< "a", "b", "c" >>),
     Discount |-> Money(<< "-", "0", ".", "5", "0" >>)] }

\* raw items whose description holds a keyword, or is empty
KeywordItems ==
  { [Description |-> TextField(<< "Z", "e", "r", "o", " ", "r", "a", "t", "e", "d" >>), TotalPrice |-> Money(<< "$", "1", "0", ".", "0", "0" >>)],
    [Description |-> TextField(<< "M", "i", "l", "k", " ", "1", "0", "%" >>), TotalPrice |-> Money(<< "$", "1", "0", ".", "0", "0" >>)],
    [Description |-> TextField(<< "T", "a", "x", " ", "E", "x", "e", "m", "p", "t" >>), TotalPrice |-> Money(<< "$", "1", "0", ".", "0", "0" >>)],
    [Description |-> Field("string", Str(<< >>), "value_string", Str(<< "B", "r", "e", "a", "d" >>)),
     Price |-> Money(<< "$", "3", ".", "0", "0" >>), TotalPrice |-> Money(<< "$", "1", "0", ".", "0", "0" >>)] }

ItemElems ==
  { Obj(m) : m \in ItemShapes \cup KeywordItems }
    \cup { Elem("none", NoMap), Elem("absent", NoMap) }

PaymentEntry ==
  Obj([PaymentType |-> TextField(<< "V", "i", "s", "a" >>), Amount |-> Money(<< "$", "2", "0", ".", "0", "0" >>),
       CreditCardLast4Digits |-> TextField(<< "1", "2", "3", "4" >>)])

HstTaxId == TextField(<< "H", "S", "T", "#", " ", "1", "2", "3", "4", "5", "6", "7", "8", "9", " ", "R", "T", "0", "0", "0", "1" >>)

PlainTaxId == TextField(<< "B", "N", " ", "1", "2" >>)

\* the entries of the general inputs: every field name the assembler reads
GeneralEntries ==
  { << "MerchantName", TextField(<< "S", "h", "o", "p" >>) >>,
    << "MerchantName", BadField >>,
    << "MerchantAddress", Field("address", Str(<< "1", " ", "M", "a", "i", "n", " ", "O", "N" >>), "value_address", NoneV) >>,
    << "MerchantPhoneNumber", Field("phoneNumber", NoneV, "value_phone_number", Str(<< "5", "5", "5" >>)) >>,
    << "MerchantTaxId", HstTaxId >>,
    << "MerchantTaxId", PlainTaxId >>,
    << "MerchantTaxId", TextField(<< "x", " ", "g", "s", "t", " ", "1", "2", "3", "4", "5", "6", "7", "8", "9", " ", " ", "z" >>) >>,
    << "MerchantTaxId", TextField(<< "H", "S", "T", " ", "1", "2", "3", "4", "5" >>) >>,
    << "MerchantTaxId", BadField >>,
    << "TransactionDate", Field("date", NoneV, "value_date", Str(<< "2", "0", "2", "4", "-", "0", "1", "-", "0", "2" >>)) >>,
    << "TransactionTime", TextField(<< "1", "0", ":", "0", "0" >>) >>,
    << "Total", Money(<< "$", "1", "5", ".", "0", "0" >>) >>,
    << "Total", BadField >>,
    << "Subtotal", Number(1300) >>,
    << "TotalTax", Money(<< "$", "2", ".", "0", "0" >>) >>,
    << "TaxDetails", ArrayField("list", << HstEntry >>) >>,
    << "TaxDetails", ArrayField("list", << Elem("none", NoMap) >>) >>,
    << "PaymentDetails", ArrayField("list", << PaymentEntry >>) >>,
    << "PaymentDetails", ArrayField("none", << >>) >>,
    << "AmountTendered", Money(<< "$", "5", "0", ".", "0", "0" >>) >>,
    << "ChangeDue", Money(<< "$", "5", ".", "0", "0" >>) >>,
    << "PaymentType", TextField(<< "C", "a", "s", "h" >>) >>,
    << "Items", ArrayField("list", << BreadItem >>) >>,
    << "Items", ArrayField("list", << BreadItem, Elem("none", NoMap) >>) >>,
    << "Currency", NoneV >> }

\* the entries of the tax inputs, with breakdowns of at most n entries
TaxEntries(n) ==
  { << "MerchantTaxId", HstTaxId >>,
    << "MerchantTaxId", PlainTaxId >>,
    << "TotalTax", Money(<< "$", "2", ".", "0", "0" >>) >>,
    << "TotalTax", Money(<< "n", "/", "a" >>) >> }
    \cup { << "TaxDetails", ArrayField("list", a) >> : a \in Arrays(TaxElems, n) }

\* the fields around the Items field of the item inputs; MerchantTaxId, which
\* is read by name before the loop, comes first when present
ItemContexts ==
  { << >>,
    << << "MerchantTaxId", HstTaxId >> >>,
    << << "TaxDetails", ArrayField("list", << HstEntry >>) >> >>,
    << << "TaxDetails", ArrayField("list", << PlainTaxEntry >>) >> >>,
    << << "MerchantTaxId", HstTaxId >>,
       << "TaxDetails", ArrayField("list", << HstEntry >>) >> >>,
    << << "MerchantTaxId", HstTaxId >>,
       << "TaxDetails", ArrayField("list", << PlainTaxEntry >>) >> >> }

\* the first position the Items field takes among the fields ctx
FirstSlot(ctx) == IF ctx # << >> /\ ctx[1][1] = "MerchantTaxId" THEN 1 ELSE 0

\* the sequence s with the entry e after its first k entries
InsertAt(s, k, e) == SubSeq(s, 1, k) \o << e >> \o SubSeq(s, k + 1, Len(s))

ImageIds == { NoneV, Str(<< "r", "1" >>) }

\* an AnalyzeResult with one document that carries the fields f
WithFields(content, doc_type, f) ==
  [state |-> "ok", content |-> content,
   documents |-> << [doc_type |-> doc_type, fields_state |-> "map", fields |-> f] >>]

\* results without a document, or whose document has no fields
Degenerate ==
  { [state |-> s, content |-> NoneV, documents |-> << >>] : s \in {"none", "malformed"} }
    \cup { [state |-> "ok", content |-> c, documents |-> << >>] : c \in {NoneV, Str(<< "t", "e", "x", "t" >>)} }
    \cup { [state |-> "ok", content |-> c,
            documents |-> << [doc_type |-> d, fields_state |-> fs, fields |-> << >>] >>] :
             c \in {NoneV, Str(<< "t", "e", "x", "t" >>)}, d \in {NoneV, Str(<< "r", "e", "c", "e", "i", "p", "t" >>)},
             fs \in {"absent", "none", "map"} }

\* the general inputs, with at most n fields
GeneralInputs(n) ==
  Degenerate
    \cup { WithFields(Str(<< "t", "e", "x", "t" >>), Str(<< "r", "e", "c", "e", "i", "p", "t" >>), f) : f \in FieldSeqs(GeneralEntries, n) }

\* the tax inputs, with breakdowns of at most n entries, in every order of
\* the fields
TaxInputs(n) ==
  { WithFields(Str(<< "t", "e", "x", "t" >>), Str(<< "r", "e", "c", "e", "i", "p", "t" >>), f) : f \in FieldSeqs(TaxEntries(n), Cardinality(Names(TaxEntries(n)))) }

\* an item input: the Items array a after the first k of the fields ctx
ItemInput(ctx, k, a) ==
  WithFields(Str(<< "t", "e", "x", "t" >>), Str(<< "r", "e", "c", "e", "i", "p", "t" >>),
             InsertAt(ctx, k, << "Items", ArrayField("list", a) >>))

\* no helper function is called on its own
NoCall == [fn |-> "", state |-> "idle", arg |-> NoneV, ret |-> NoneV]

\* the state at the call of _process_receipt_result
InitWith(input, id) ==
  /\ receipts = input
  /\ image_id = id
  /\ pc = "start"
  /\ i = 0
  /\ result = GetEmptyResult(id)
  /\ outcome = "running"
  /\ total_tax = NoneV
  /\ tax_rates = << >>
  /\ tax_amounts = << >>
  /\ tax_types = << >>
  /\ subtotal = NoneV
  /\ total = NoneV
  /\ has_hst = FALSE
  /\ hst_number_found = FALSE
  /\ skipped = {}
  /\ call = NoCall

Init == \E input \in GeneralInputs(MaxFields), id \in ImageIds : InitWith(input, id)

Spec == Init /\ [][Next]_vars

\* the tax inputs
InitTax == \E input \in TaxInputs(MaxTaxEntries) : InitWith(input, Str(<< "r", "1" >>))

SpecTax == InitTax /\ [][Next]_vars

\* the item inputs, with Items arrays of at most MaxItems elements, before
\* and after the TaxDetails field
InitItems ==
  \E a \in Arrays(ItemElems, MaxItems), ctx \in ItemContexts :
    \E k \in FirstSlot(ctx)..Len(ctx) :
      InitWith(ItemInput(ctx, k, a), Str(<< "r", "1" >>))

SpecItems == InitItems /\ [][Next]_vars

\* ------------------------------------------------------------------------
\* Categorizer
\* ------------------------------------------------------------------------
\* category_mappings, in the order of the dict
CategoryMappings ==
  <<
     [category |-> << "g", "r", "o", "c", "e", "r", "i", "e", "s" >>,
      keywords |-> <<
        << "m", "i", "l", "k" >>, << "b", "r", "e", "a", "d" >>,
        << "c", "h", "e", "e", "s", "e" >>, << "y", "o", "g", "u", "r", "t" >>,
        << "f", "r", "u", "i", "t" >>, << "v", "e", "g", "e", "t", "a", "b", "l", "e" >>,
        << "m", "e", "a", "t" >>, << "c", "h", "i", "c", "k", "e", "n" >>,
        << "b", "e", "e", "f" >>, << "p", "o", "r", "k" >>, << "f", "i", "s", "h" >>,
        << "e", "g", "g" >>, << "c", "e", "r", "e", "a", "l" >>, << "p", "a", "s", "t", "a" >>,
        << "r", "i", "c", "e" >>, << "f", "l", "o", "u", "r" >>, << "s", "u", "g", "a", "r" >>,
        << "c", "o", "f", "f", "e", "e" >>, << "t", "e", "a" >>, << "j", "u", "i", "c", "e" >>,
        << "w", "a", "t", "e", "r" >>, << "s", "n", "a", "c", "k" >>, << "c", "h", "i", "p" >>,
        << "c", "o", "o", "k", "i", "e" >>, << "c", "r", "a", "c", "k", "e", "r" >>,
        << "n", "u", "t" >>, << "b", "e", "a", "n" >>, << "g", "r", "a", "i", "n" >>,
        << "p", "r", "o", "d", "u", "c", "e" >>, << "d", "a", "i", "r", "y" >>,
        << "b", "a", "k", "e", "r", "y" >>, << "d", "e", "l", "i" >>,
        << "f", "r", "o", "z", "e", "n" >>, << "c", "a", "n", "n", "e", "d" >>,
        << "p", "a", "n", "t", "r", "y" >>, << "s", "p", "i", "c", "e" >>, << "o", "i", "l" >>,
        << "v", "i", "n", "e", "g", "a", "r" >>, << "s", "a", "u", "c", "e" >>,
        << "c", "o", "n", "d", "i", "m", "e", "n", "t" >>, << "p", "a", "n", "e", "e", "r" >>,
        << "n", "a", "a", "n" >>, << "t", "a", "n", "d", "o", "o", "r", "i" >> >>],
     [category |-> << "h", "o", "u", "s", "e", "h", "o", "l", "d" >>,
      keywords |-> <<
        << "p", "a", "p", "e", "r" >>, << "t", "o", "i", "l", "e", "t" >>,
        << "t", "i", "s", "s", "u", "e" >>, << "d", "e", "t", "e", "r", "g", "e", "n", "t" >>,
        << "s", "o", "a", "p" >>, << "c", "l", "e", "a", "n", "e", "r" >>,
        << "c", "l", "e", "a", "n", "i", "n", "g" >>, << "l", "a", "u", "n", "d", "r", "y" >>,
        << "d", "i", "s", "h" >>, << "t", "o", "w", "e", "l" >>, << "t", "r", "a", "s", "h" >>,
        << "g", "a", "r", "b", "a", "g", "e" >>, << "b", "a", "g" >>,
        << "b", "a", "t", "t", "e", "r", "y" >>,
        << "l", "i", "g", "h", "t", " ", "b", "u", "l", "b" >>, << "c", "a", "n", "d", "l", "e" >>,
        << "f", "i", "l", "t", "e", "r" >>, << "s", "t", "o", "r", "a", "g", "e" >>,
        << "c", "o", "n", "t", "a", "i", "n", "e", "r" >>, << "f", "o", "i", "l" >>,
        << "w", "r", "a", "p" >>, << "z", "i", "p", "l", "o", "c" >>,
        << "v", "a", "c", "u", "u", "m" >>, << "b", "r", "o", "o", "m" >>, << "m", "o", "p" >>,
        << "s", "p", "o", "n", "g", "e" >>, << "g", "l", "o", "v", "e" >>,
        << "s", "u", "p", "p", "l", "y" >> >>],
     [category |-> << "p", "e", "r", "s", "o", "n", "a", "l", "_", "c", "a", "r", "e" >>,
      keywords |-> <<
        << "s", "h", "a", "m", "p", "o", "o" >>,
        << "c", "o", "n", "d", "i", "t", "i", "o", "n", "e", "r" >>,
        << "b", "o", "d", "y", " ", "w", "a", "s", "h" >>, << "s", "o", "a", "p" >>,
        << "l", "o", "t", "i", "o", "n" >>, << "c", "r", "e", "a", "m" >>,
        << "d", "e", "o", "d", "o", "r", "a", "n", "t" >>,
        << "t", "o", "o", "t", "h", "p", "a", "s", "t", "e" >>,
        << "t", "o", "o", "t", "h", "b", "r", "u", "s", "h" >>, << "f", "l", "o", "s", "s" >>,
        << "m", "o", "u", "t", "h", "w", "a", "s", "h" >>, << "r", "a", "z", "o", "r" >>,
        << "s", "h", "a", "v", "i", "n", "g" >>, << "m", "a", "k", "e", "u", "p" >>,
        << "c", "o", "s", "m", "e", "t", "i", "c" >>, << "c", "o", "t", "t", "o", "n" >>,
        << "s", "a", "n", "i", "t", "i", "z", "e", "r" >>,
        << "m", "e", "d", "i", "c", "i", "n", "e" >>, << "v", "i", "t", "a", "m", "i", "n" >>,
        << "s", "u", "p", "p", "l", "e", "m", "e", "n", "t" >>,
        << "b", "a", "n", "d", "a", "g", "e" >>, << "s", "u", "n", "s", "c", "r", "e", "e", "n" >>,
        << "i", "n", "s", "e", "c", "t", " ", "r", "e", "p", "e", "l", "l", "e", "n", "t" >>,
        << "n", "a", "i", "l" >>, << "h", "a", "i", "r" >> >>],
     [category |-> << "d", "i", "n", "i", "n", "g" >>,
      keywords |-> <<
        << "r", "e", "s", "t", "a", "u", "r", "a", "n", "t" >>, << "c", "a", "f", "e" >>,
        << "c", "o", "f", "f", "e", "e", " ", "s", "h", "o", "p" >>, << "b", "a", "r" >>,
        << "p", "u", "b" >>, << "f", "a", "s", "t", " ", "f", "o", "o", "d" >>,
        << "t", "a", "k", "e", "o", "u", "t" >>, << "d", "e", "l", "i", "v", "e", "r", "y" >>,
        << "p", "i", "z", "z", "a" >>, << "b", "u", "r", "g", "e", "r" >>,
        << "s", "a", "n", "d", "w", "i", "c", "h" >>, << "s", "a", "l", "a", "d" >>,
        << "b", "r", "e", "a", "k", "f", "a", "s", "t" >>, << "l", "u", "n", "c", "h" >>,
        << "d", "i", "n", "n", "e", "r" >>, << "m", "e", "a", "l" >>,
        << "d", "r", "i", "n", "k" >>, << "b", "e", "v", "e", "r", "a", "g", "e" >>,
        << "a", "l", "c", "o", "h", "o", "l" >>, << "b", "e", "e", "r" >>,
        << "w", "i", "n", "e" >>, << "l", "i", "q", "u", "o", "r" >>,
        << "c", "o", "c", "k", "t", "a", "i", "l" >>,
        << "a", "p", "p", "e", "t", "i", "z", "e", "r" >>, << "d", "e", "s", "s", "e", "r", "t" >>,
        << "t", "i", "p" >>,
        << "s", "e", "r", "v", "i", "c", "e", " ", "c", "h", "a", "r", "g", "e" >> >>],
     [category |-> << "t", "r", "a", "n", "s", "p", "o", "r", "t", "a", "t", "i", "o", "n" >>,
      keywords |-> <<
        << "g", "a", "s" >>, << "f", "u", "e", "l" >>, << "p", "a", "r", "k", "i", "n", "g" >>,
        << "t", "o", "l", "l" >>, << "f", "a", "r", "e" >>, << "t", "i", "c", "k", "e", "t" >>,
        << "u", "b", "e", "r" >>, << "l", "y", "f", "t" >>, << "t", "a", "x", "i" >>,
        << "c", "a", "b" >>, << "b", "u", "s" >>, << "t", "r", "a", "i", "n" >>,
        << "s", "u", "b", "w", "a", "y" >>, << "r", "e", "n", "t", "a", "l" >>,
        << "c", "a", "r", " ", "w", "a", "s", "h" >>,
        << "o", "i", "l", " ", "c", "h", "a", "n", "g", "e" >>,
        << "m", "a", "i", "n", "t", "e", "n", "a", "n", "c", "e" >>,
        << "r", "e", "p", "a", "i", "r" >>, << "t", "i", "r", "e" >>,
        << "b", "a", "t", "t", "e", "r", "y" >>, << "i", "n", "s", "u", "r", "a", "n", "c", "e" >>,
        << "r", "e", "g", "i", "s", "t", "r", "a", "t", "i", "o", "n" >>,
        << "l", "i", "c", "e", "n", "s", "e" >>, << "d", "m", "v" >> >>],
     [category |-> << "e", "n", "t", "e", "r", "t", "a", "i", "n", "m", "e", "n", "t" >>,
      keywords |-> <<
        << "m", "o", "v", "i", "e" >>, << "t", "h", "e", "a", "t", "e", "r" >>,
        << "c", "o", "n", "c", "e", "r", "t" >>, << "s", "h", "o", "w" >>,
        << "e", "v", "e", "n", "t" >>, << "t", "i", "c", "k", "e", "t" >>,
        << "g", "a", "m", "e" >>, << "b", "o", "o", "k" >>,
        << "m", "a", "g", "a", "z", "i", "n", "e" >>, << "m", "u", "s", "i", "c" >>,
        << "v", "i", "d", "e", "o" >>, << "s", "t", "r", "e", "a", "m", "i", "n", "g" >>,
        << "s", "u", "b", "s", "c", "r", "i", "p", "t", "i", "o", "n" >>, << "t", "o", "y" >>,
        << "g", "a", "m", "e" >>, << "h", "o", "b", "b", "y" >>, << "c", "r", "a", "f", "t" >>,
        << "s", "p", "o", "r", "t" >>, << "f", "i", "t", "n", "e", "s", "s" >>,
        << "g", "y", "m" >>, << "c", "l", "a", "s", "s" >>, << "l", "e", "s", "s", "o", "n" >>,
        << "t", "o", "u", "r" >>, << "p", "a", "r", "k" >>, << "m", "u", "s", "e", "u", "m" >>,
        << "a", "t", "t", "r", "a", "c", "t", "i", "o", "n" >> >>]
  >>

\* word.capitalize()
Capitalize(w) ==
  [k \in DOMAIN w |-> IF k = 1 THEN UpperChar(w[k]) ELSE LowerChar(w[k])]

\* " ".join(word.capitalize() for word in category.split("_"))
RECURSIVE DisplayLabel(_)
DisplayLabel(category) ==
  IF \E k \in DOMAIN category : category[k] = "_"
  THEN LET cut == CHOOSE k \in DOMAIN category :
                    category[k] = "_" /\ \A m \in 1..(k - 1) : category[m] # "_"
       IN Capitalize(SubSeq(category, 1, cut - 1)) \o << " " >>
          \o DisplayLabel(SubSeq(category, cut + 1, Len(category)))
  ELSE Capitalize(category)

\* the categories with a keyword in the description
Matching(description) ==
  { c \in DOMAIN CategoryMappings :
      \E k \in DOMAIN CategoryMappings[c].keywords :
        Contains(CategoryMappings[c].keywords[k], description) }

\* a variant that returns the last matching category
CategorizeItemLastMatch(description) ==
  LET desc == IF Truthy(description) THEN Lower(description.s) ELSE << >>
      hits == Matching(desc)
  IN IF hits # {}
     THEN DisplayLabel(CategoryMappings[CHOOSE c \in hits : \A o \in hits : o <= c].category)
     ELSE << "G", "r", "o", "c", "e", "r", "i", "e", "s" >>

\* AzureReceiptAnalyzer._categorize_item: a text
CategorizeItem(description) ==
  LET desc == IF Truthy(description) THEN Lower(description.s) ELSE << >>
      hits == Matching(desc)
  IN IF hits # {}
     THEN DisplayLabel(CategoryMappings[CHOOSE c \in hits : \A o \in hits : c <= o].category)
     ELSE IF Contains(<< "b", "a", "g" >>, desc)
             /\ Contains(<< "r", "e", "u", "s", "a", "b", "l", "e" >>, desc)
     THEN << "H", "o", "u", "s", "e", "h", "o", "l", "d" >>
     ELSE << "G", "r", "o", "c", "e", "r", "i", "e", "s" >>

\* ------------------------------------------------------------------------
\* Sums of floats
\*   A float near the decimal h/100 is [h |-> h, d |-> d]: its value is
\*   h/100 + d * 2^-60 / 100, where d is the error of the binary
\*   representation.  The operators are exact for 0.01 <= h/100 < 2048.
\* ------------------------------------------------------------------------
RECURSIVE Pow2(_)
Pow2(n) == IF n = 0 THEN 1 ELSE 2 * Pow2(n - 1)

\* 2^n modulo 200
RECURSIVE Pow2Mod200(_)
Pow2Mod200(n) == IF n = 0 THEN 1 ELSE (2 * Pow2Mod200(n - 1)) % 200

\* 2^e <= h/100
AtLeastPow2(h, e) == IF e >= 0 THEN 100 * Pow2(e) <= h ELSE 100 <= h * Pow2(0 - e)

\* the binary exponent of the value h/100 + d * 2^-60 / 100
Binade(h, d) ==
  LET e == CHOOSE x \in (0 - 7)..10 : AtLeastPow2(h, x) /\ ~AtLeastPow2(h, x + 1)
      exact == IF e >= 0 THEN 100 * Pow2(e) = h ELSE 100 = h * Pow2(0 - e)
  IN IF exact /\ d < 0 THEN e - 1 ELSE e

\* the double nearest to h/100 + d * 2^-60 / 100, a tie going to the even
\* mantissa (IEEE 754 round-to-nearest-even, 53-bit mantissa)
RoundToDouble(h, d) ==
  LET e == Binade(h, d)
      w == Pow2(e + 8)                            \* a hundredth of one ulp
      x == (((h * Pow2Mod200(52 - e)) % 200) * w + d) % (200 * w)
      odd == x \div (100 * w) = 1
      r == x % (100 * w)
      up == 2 * r > 100 * w \/ (2 * r = 100 * w /\ odd)
  IN [h |-> h, d |-> IF up THEN d + (100 * w - r) ELSE d - r]

\* float(text) of a non-negative decimal text, h in hundredths
FloatOf(h) == IF h = 0 THEN [h |-> 0, d |-> 0] ELSE RoundToDouble(h, 0)

\* a + b for non-negative floats
FloatAdd(a, b) ==
  IF a.h = 0 THEN b
  ELSE IF b.h = 0 THEN a
  ELSE RoundToDouble(a.h + b.h, a.d + b.d)

\* a < b
FloatLess(a, b) == a.h < b.h \/ (a.h = b.h /\ a.d < b.d)

\* ------------------------------------------------------------------------
\* Summary Aggregator
\* ------------------------------------------------------------------------
\* float(text) for the value _clean_currency returns (non-negative here)
AsFloat(value) == FloatOf(value.n)

\* a variant that replaces the running sum by the total of the receipt
AddTotalLastWins(sum, receipt) ==
  LET rec_total == CleanCurrency(Str(receipt.transaction.total)) IN
    IF rec_total # NoneV THEN AsFloat(rec_total) ELSE sum

\* total_spending after one receipt (rec_total is the local total)
AddTotal(sum, receipt) ==
  LET rec_total == CleanCurrency(Str(receipt.transaction.total)) IN
    IF rec_total # NoneV THEN FloatAdd(sum, AsFloat(rec_total)) ELSE sum

\* categories after one item; the dict keeps the order of insertion
Added(categories, category, item_total) ==
  IF item_total = NoneV THEN categories
  ELSE IF \E k \in DOMAIN categories : categories[k].category = category
  THEN [k \in DOMAIN categories |->
          IF categories[k].category = category
          THEN [categories[k] EXCEPT !.value = FloatAdd(@, AsFloat(item_total))]
          ELSE categories[k]]
  ELSE Append(categories, [category |-> category, value |-> AsFloat(item_total)])

AddItem(categories, item) ==
  Added(categories, CategorizeItem(Str(item.description)),
        CleanCurrency(Str(item.total)))

\* the loop over the items of one receipt
RECURSIVE AddItems(_, _)
AddItems(categories, items) ==
  IF items = << >> THEN categories
  ELSE AddItems(AddItem(categories, Head(items)), Tail(items))

\* the loop over the receipts
RECURSIVE SummaryLoop(_, _)
SummaryLoop(acc, results) ==
  IF results = << >> THEN acc
  ELSE LET receipt == Head(results) IN
    SummaryLoop([total_spending |-> AddTotal(acc.total_spending, receipt),
                 item_count |-> acc.item_count + Len(receipt.items),
                 categories |-> AddItems(acc.categories, receipt.items)],
                Tail(results))

\* sorted(categories.items(), key=lambda item: item[1], reverse=True): a
\* stable sort, entries with equal values keep their order
RECURSIVE SortedByValue(_)
SortedByValue(categories) ==
  IF categories = << >> THEN << >>
  ELSE LET n == Len(categories)
           last == categories[n]
           rest == SortedByValue(SubSeq(categories, 1, n - 1))
           before == Cardinality({ k \in DOMAIN rest : ~FloatLess(rest[k].value, last.value) })
       IN SubSeq(rest, 1, before) \o << last >> \o SubSeq(rest, before + 1, Len(rest))

\* round(value, 2) of every sorted category total
Rounded(sorted) ==
  [k \in DOMAIN sorted |->
     [category |-> sorted[k].category, total |-> sorted[k].value.h]]

\* lines 780-796: the report of the sums acc over receipt_count receipts
Report(acc, receipt_count) ==
  [total_spending |-> acc.total_spending.h,
   receipt_count |-> receipt_count,
   item_count |-> acc.item_count,
   categories |-> Rounded(SortedByValue(acc.categories))]

\* AzureReceiptAnalyzer.generate_summary_report: total_spending and the
\* category totals after round(..., 2), in hundredths (the error of a sum
\* of a few floats is far below half a hundredth); the merchant and date
\* parts of the report are left out
GenerateSummaryReport(results) ==
  IF results = << >>
  THEN [total_spending |-> 0, receipt_count |-> 0, item_count |-> 0,
        categories |-> << >>]
  ELSE Report(SummaryLoop([total_spending |-> FloatOf(0), item_count |-> 0,
                           categories |-> << >>], results),
              Len(results))

\* ------------------------------------------------------------------------
\* Row projectors
\*   A row is a record of its columns: "Receipt ID" is receipt_id, "Unit
\*   Price" is unit_price, and so on.  receipt stands for the local result.
\* ------------------------------------------------------------------------
\* float(text), or the default of the except branch
FloatOr(text, default) == IF FloatOk(text) THEN Num(FloatVal(text)) ELSE default

\* the quantity of the Excel and CSV rows: an int when whole
RowQuantity(text) ==
  IF ~FloatOk(text) THEN PyInt(100)
  ELSE IF FloatVal(text) % 100 = 0 THEN PyInt(FloatVal(text)) ELSE Num(FloatVal(text))

\* float(item.get("savings", 0)) if item.get("savings") else None
RowSavings(item) == IF item.savings # << >> THEN FloatOr(item.savings, NoneV) ELSE NoneV

\* the description names a reusable bag
IsReusableBag(description) ==
  /\ Contains(<< "b", "a", "g" >>, Lower(description))
  /\ Contains(<< "r", "e", "u", "s", "a", "b", "l", "e" >>, Lower(description))

\* item_data of _save_results_excel; an assembled receipt has no raw_data,
\* so the test for "HC" never holds
ExcelRow(receipt, item, line_total, taxable, tax_amount) ==
  [receipt_id |-> receipt.image_id,
   date |-> receipt.transaction.date,
   merchant |-> receipt.merchant.name,
   description |-> item.description,
   quantity |-> RowQuantity(item.quantity),
   unit_price |-> FloatOr(item.price, Num(0)),
   total |-> Num(line_total),
   tax_status |-> IF taxable THEN "TAXABLE" ELSE "EXEMPT",
   tax_amount |-> Num(tax_amount),
   final_price |-> Num(IF tax_amount > 0 THEN line_total + tax_amount ELSE line_total),
   category |-> CategorizeItem(Str(item.description)),
   savings |-> RowSavings(item),
   notes |-> << >>]

\* the tax of a taxable line in Ontario, else 0
ExcelTax(line_total, taxable, is_ontario) ==
  IF taxable /\ is_ontario THEN RoundDiv(line_total * DefaultRate, 100) ELSE 0

ExcelTaxed(receipt, item, line_total, taxable) ==
  ExcelRow(receipt, item, line_total, taxable,
           ExcelTax(line_total, taxable,
                    Contains(<< "O", "N" >>, Upper(receipt.merchant.address))))

ExcelItemData(receipt, item) ==
  ExcelTaxed(receipt, item, FloatOr(item.total, Num(0)).n,
             IsReusableBag(item.description))

\* item_data of _save_results_csv; an item of the Item Builder has no
\* "category" key
CsvRow(receipt, item, line_total) ==
  [receipt_id |-> receipt.image_id,
   date |-> receipt.transaction.date,
   merchant |-> receipt.merchant.name,
   description |-> item.description,
   quantity |-> RowQuantity(item.quantity),
   unit_price |-> FloatOr(item.price, Num(0)),
   tax_status |-> item.tax_status,
   tax_amount |-> IF item.tax_amount # << >> THEN FloatOr(item.tax_amount, Num(0))
                  ELSE Num(0),
   final_price |-> IF item.final_price # << >> THEN FloatOr(item.final_price, line_total)
                   ELSE line_total,
   total |-> line_total,
   category |-> << >>,
   savings |-> RowSavings(item),
   notes |-> << >>]

CsvItemData(receipt, item) == CsvRow(receipt, item, FloatOr(item.total, Num(0)))

\* item_record of _prepare_excel_data
ItemRecord(receipt, item) ==
  LET category == CategorizeItem(Str(item.description)) IN
    [receipt_id |-> receipt.image_id,
     date |-> receipt.transaction.date,
     merchant |-> receipt.merchant.name,
     description |-> item.description,
     quantity |-> CleanQuantity(Str(item.quantity)),
     unit_price |-> CleanCurrency(Str(item.price)),
     total |-> CleanCurrency(Str(item.total)),
     tax_status |-> item.tax_status,
     tax_amount |-> CleanCurrency(Str(item.tax_amount)),
     final_price |-> CleanCurrency(Str(item.final_price)),
     category |-> IF category # << "O", "t", "h", "e", "r" >> THEN category
                  ELSE << "U", "n", "c", "a", "t", "e", "g", "o", "r", "i", "z", "e", "d" >>,
     savings |-> CleanCurrency(Str(item.savings)),
     notes |-> << >>]

\* record of _prepare_excel_data
ReceiptRecord(receipt) ==
  [receipt_id |-> receipt.image_id,
   date |-> receipt.transaction.date,
   time |-> receipt.transaction.time,
   merchant |-> receipt.merchant.name,
   merchant_address |-> receipt.merchant.address,
   subtotal |-> CleanCurrency(Str(receipt.transaction.subtotal)),
   total_tax |-> CleanCurrency(Str(receipt.transaction.tax_details.total_tax)),
   total_amount |-> CleanCurrency(Str(receipt.transaction.total)),
   payment_amount |-> CleanCurrency(Str(receipt.payment.amount)),
   change_due |-> CleanCurrency(Str(receipt.payment.change_due)),
   notes |-> << >>]

\* all_items of _save_results_excel: the rows of the items of all results
RECURSIVE ExcelRows(_)
ExcelRows(results) ==
  IF results = << >> THEN << >>
  ELSE [k \in DOMAIN Head(results).items |->
          ExcelItemData(Head(results), Head(results).items[k])]
       \o ExcelRows(Tail(results))

\* all_items of _save_results_csv
RECURSIVE CsvRows(_)
CsvRows(results) ==
  IF results = << >> THEN << >>
  ELSE [k \in DOMAIN Head(results).items |->
          CsvItemData(Head(results), Head(results).items[k])]
       \o CsvRows(Tail(results))

\* items_data of _prepare_excel_data
RECURSIVE RecordRows(_)
RecordRows(results) ==
  IF results = << >> THEN << >>
  ELSE [k \in DOMAIN Head(results).items |->
          ItemRecord(Head(results), Head(results).items[k])]
       \o RecordRows(Tail(results))

\* a variant that writes a summary row only for a receipt with items
PrepareExcelDataSkipsEmpty(results) ==
  [receipt_data |-> LET kept == SelectSeq(results, LAMBDA r : r.items # << >>)
                    IN [k \in DOMAIN kept |-> ReceiptRecord(kept[k])],
   items_data |-> RecordRows(results),
   tax_data |-> << >>]

\* AzureReceiptAnalyzer._prepare_excel_data
PrepareExcelData(results) ==
  [receipt_data |-> [k \in DOMAIN results |-> ReceiptRecord(results[k])],
   items_data |-> RecordRows(results),
   tax_data |-> << >>]

\* ------------------------------------------------------------------------
\* Saving the results
\*   What the file system and the workbook library do is an outcome chosen
\*   by the environment.  A call gives [ret, files, rows, tried]: the value
\*   returned, the files written, the item rows built and the writers run.
\* ------------------------------------------------------------------------
\* output_file_path.replace(".xlsx", ".csv") for a path ending in ".xlsx"
CsvPathOf(path) == SubSeq(path, 1, Len(path) - 5) \o << ".", "c", "s", "v" >>

\* AzureReceiptAnalyzer._save_results_csv; csv_ok: the frame is built and
\* written without an exception
CsvWritten(all_items, output_file_path, csv_ok) ==
  IF csv_ok /\ all_items # << >>
  THEN [ret |-> Str(output_file_path), files |-> {output_file_path},
        rows |-> all_items, tried |-> {"csv"}]
  ELSE [ret |-> NoneV, files |-> {}, rows |-> all_items, tried |-> {"csv"}]

SaveResultsCsv(results, output_file_path, csv_ok) ==
  CsvWritten(CsvRows(results), output_file_path, csv_ok)

\* AzureReceiptAnalyzer._save_results_excel; excel: "saved", "build fails"
\* (an exception before wb.save) or "write fails" (wb.save raises)
ExcelWritten(all_items, csv, output_file_path, excel) ==
  IF excel = "saved"
  THEN [ret |-> Str(output_file_path), files |-> {output_file_path},
        rows |-> all_items, tried |-> {"excel"}]
  ELSE [ret |-> Str(CsvPathOf(output_file_path)), files |-> csv.files,
        rows |-> all_items, tried |-> {"excel", "csv"}]

SaveResultsExcel(results, output_file_path, excel, csv_ok) ==
  ExcelWritten(ExcelRows(results),
               SaveResultsCsv(results, CsvPathOf(output_file_path), csv_ok),
               output_file_path, excel)

\* AzureReceiptAnalyzer._save_results_simple_excel
SimpleWritten(items_data, output_file_path, simple_ok) ==
  IF simple_ok /\ items_data # << >>
  THEN [ret |-> TRUE, files |-> {output_file_path}, rows |-> items_data,
        tried |-> {"simple"}]
  ELSE [ret |-> FALSE, files |-> {}, rows |-> items_data, tried |-> {"simple"}]

SaveResultsSimpleExcel(results, output_file_path, simple_ok) ==
  SimpleWritten(PrepareExcelData(results).items_data, output_file_path, simple_ok)

JsonPath == << "r", ".", "j", "s", "o", "n" >>

XlsxPath == << "r", ".", "x", "l", "s", "x" >>

SimplePath == << "r", "_", "s", ".", "x", "l", "s", "x" >>

\* AzureReceiptAnalyzer.save_results; env: the outcomes of the writers
\* lines 1294-1321: primary is what _save_results_excel gave, simple what
\* _save_results_simple_excel gives when it is called
ResultsSaved(primary, simple, json_ok) ==
  LET json == IF json_ok THEN {JsonPath} ELSE {}
      excel_success == Truthy(primary.ret)
  IN [ret |-> [json_path |-> Str(JsonPath),
               excel_path |-> IF excel_success THEN Str(XlsxPath) ELSE NoneV],
      files |-> json \cup primary.files
                \cup (IF excel_success THEN {} ELSE simple.files),
      rows |-> primary.rows,
      tried |-> primary.tried \cup (IF excel_success THEN {} ELSE simple.tried)]

SaveResults(results, env) ==
  IF results = << >>
  THEN [ret |-> [json_path |-> NoneV, excel_path |-> NoneV], files |-> {},
        rows |-> << >>, tried |-> {}]
  ELSE ResultsSaved(SaveResultsExcel(results, XlsxPath, env.excel, env.csv_ok),
                    SaveResultsSimpleExcel(results, SimplePath, env.simple_ok),
                    env.json_ok)

\* ------------------------------------------------------------------------
\* The helper functions called on their own
\* ------------------------------------------------------------------------
\* the state at a call of helper fn with argument arg: no receipt is being
\* processed
InitCall(fn, arg) ==
  /\ receipts = NoneV
  /\ image_id = NoneV
  /\ pc = "idle"
  /\ i = 0
  /\ result = GetEmptyResult(NoneV)
  /\ outcome = "running"
  /\ total_tax = NoneV
  /\ tax_rates = << >>
  /\ tax_amounts = << >>
  /\ tax_types = << >>
  /\ subtotal = NoneV
  /\ total = NoneV
  /\ has_hst = FALSE
  /\ hst_number_found = FALSE
  /\ skipped = {}
  /\ call = [fn |-> fn, state |-> "called", arg |-> arg, ret |-> NoneV]

\* what a helper call leaves alone
Pipeline == << receipts, image_id, pc, i, result, outcome, total_tax, tax_rates,
               tax_amounts, tax_types, subtotal, total, has_hst,
               hst_number_found, skipped >>

\* the kinds _extract_field_value tests for, and one it does not
FieldKinds == {"string", "number", "integer", "date", "phoneNumber",
               "countryRegion", "currency", "address", "array"}

\* the value_* attribute _extract_field_value reads for a kind
AccessorOf(kind) ==
  CASE kind = "string" -> "value_string"
    [] kind = "number" -> "value_number"
    [] kind = "integer" -> "value_integer"
    [] kind = "date" -> "value_date"
    [] kind = "phoneNumber" -> "value_phone_number"
    [] kind = "countryRegion" -> "value_country_region"
    [] kind = "currency" -> "value_currency"
    [] kind = "address" -> "value_address"
    [] OTHER -> "value_array"

\* a value of the attribute; a date stands as its ISO text, a currency
\* value as its amount
TypedSample(kind) ==
  CASE kind = "string" -> Str(<< "B", "r", "e", "a", "d" >>)
    [] kind = "number" -> Num(250)
    [] kind = "integer" -> PyInt(300)
    [] kind = "date" -> Str(<< "2", "0", "2", "4", "-", "0", "1", "-", "0", "2" >>)
    [] kind = "phoneNumber" -> Str(<< "+", "1", "5", "5", "5" >>)
    [] kind = "countryRegion" -> Str(<< "C", "A", "N" >>)
    [] kind = "currency" -> Num(500)
    [] OTHER -> Str(<< "x" >>)

\* the display texts of a field: none, empty, non-empty
FieldContents == { NoneV, EmptyStr, Str(<< "4", ".", "5", "0" >>) }

\* the arguments of _extract_field_value: no field, a malformed field, and
\* the fields of every kind and display text whose value_* attribute is
\* missing, None or set
ExtractInputs ==
  {NoneV, BadField} \cup
  UNION { { Field(k, c, "", NoneV), Field(k, c, AccessorOf(k), NoneV),
            Field(k, c, AccessorOf(k), TypedSample(k)) } :
          k \in FieldKinds, c \in FieldContents }

\* the decimal amounts formatted for the currency normalizers, in hundredths
Amounts == { 0 - 123456, 0 - 100000, 0 - 99999, 0 - 500, 0 - 5, 0, 5, 500,
             99999, 100000, 123456 }

\* k as three digits
ThreeDigits(k) ==
  << DigitChars[(k \div 100) + 1], DigitChars[((k \div 10) % 10) + 1],
     DigitChars[(k % 10) + 1] >>

\* a natural number with comma thousands separators
RECURSIVE Grouped(_)
Grouped(k) ==
  IF k < 1000 THEN NatStr(k)
  ELSE Grouped(k \div 1000) \o << "," >> \o ThreeDigits(k % 1000)

\* where the sign of a negative amount stands: "-$5.00" or "$-5.00"
Layouts == {"sign first", "symbol first"}

\* amount d with a currency symbol, comma thousands separators, two
\* decimals and surrounding whitespace
Format(d, layout) ==
  LET m == Abs(d)
      sign == IF d < 0 THEN << "-" >> ELSE << >>
      digits == Grouped(m \div 100) \o << "." >>
                \o << DigitChars[((m % 100) \div 10) + 1], DigitChars[(m % 10) + 1] >>
  IN << " " >>
     \o (IF layout = "sign first" THEN sign \o << "$" >> ELSE << "$" >> \o sign)
     \o digits \o << " " >>

\* texts with signs, noise and malformed numbers
CurrencyTexts ==
  { << "-", "5", ".", "0", "0" >>, << "5", "-", ".", "0", "0" >>,
    << "a", "b", "c" >>, << "$" >>, << "-" >>, << "." >>, << "-", "." >>,
    << "-", "-", "5" >>, << "-", "5", "-" >>, << "5", "-" >>,
    << "T", " ", "-", "5", ".", "5", "0", " ", "H" >>,
    << "$", "1", "2", ",", "3", "4", "5", ".", "6", "7" >>,
    << "1", ".", "2", ".", "3" >>, << "4", " ", "H" >>, << "-", "0", ".", "0", "5" >> }

\* the arguments of the currency normalizers: None, the empty text, numbers,
\* the texts above and the formatted amounts
CurrencyInputs ==
  { NoneV, EmptyStr, Num(0 - 500), Num(250), PyInt(0), PyInt(300) }
  \cup { Str(t) : t \in CurrencyTexts }
  \cup { Str(Format(d, l)) : d \in Amounts, l \in Layouts }

\* the arguments of _clean_quantity: None, the empty text, texts and numbers,
\* zero and negative numbers among them
QuantityInputs ==
  { NoneV, EmptyStr,
    PyInt(0 - 200), PyInt(0), PyInt(300), Num(300), Num(250), Num(0 - 250),
    Num(0), Num(5), Num(0 - 100),
    Str(<< "3" >>), Str(<< "3", " ", "x" >>), Str(<< "2", ".", "5" >>),
    Str(<< "2", ".", "5", "0" >>), Str(<< "a", "b", "c" >>),
    Str(<< "1", ".", "2", ".", "3" >>), Str(<< "." >>), Str(<< "0" >>),
    Str(<< "-", "2" >>), Str(<< "0", "0", "7" >>), Str(<< "3", ".", "0" >>),
    Str(<< " " >>), Str(<< "1", "2", " ", "k", "g" >>) }

\* the arguments of _categorize_item: None, the empty text and descriptions
\* with keywords of no, one and several categories
CategorizeInputs ==
  { NoneV, EmptyStr,
    Str(<< "2", "%", " ", "M", "i", "l", "k", " ", "1", "L" >>),
    Str(<< "R", "e", "u", "s", "a", "b", "l", "e", " ", "B", "a", "g" >>),
    Str(<< "U", "n", "k", "n", "o", "w", "n", " ", "W", "i", "d", "g", "e", "t", " ", "X", "Y", "Z" >>),
    Str(<< "R", "e", "u", "s", "a", "b", "l", "e", " ", "b", "a", "g", " ", "o", "f", " ", "r", "i", "c", "e" >>),
    Str(<< "S", "O", "A", "P" >>),
    Str(<< "B", "a", "t", "t", "e", "r", "y", " ", "A", "A" >>),
    Str(<< "T", "i", "c", "k", "e", "t" >>),
    Str(<< "C", "o", "f", "f", "e", "e", " ", "S", "h", "o", "p" >>),
    Str(<< "G", "a", "r", "b", "a", "g", "e" >>),
    Str(<< "S", "h", "a", "m", "p", "o", "o" >>),
    Str(<< "P", "i", "z", "z", "a" >>),
    Str(<< "T", "a", "x", "i" >>),
    Str(<< "M", "o", "v", "i", "e" >>),
    Str(<< "L", "i", "g", "h", "t", " ", "B", "u", "l", "b" >>),
    Str(<< "B", "o", "d", "y", " ", "W", "a", "s", "h" >>),
    Str(<< "R", "e", "u", "s", "a", "b", "l", "e", " ", "T", "e", "a", " ", "B", "a", "g" >>),
    Str(<< "B", "A", "G" >>),
    Str(<< "G", "y", "m", " ", "P", "a", "s", "s" >>),
    Str(<< "P", "e", "r", "s", "o", "n", "a", "l", "_", "C", "a", "r", "e" >>),
    Str(<< "H", "a", "i", "r", " ", "G", "e", "l" >>),
    Str(<< "B", "a", "r" >>),
    Str(<< "x", "y", "z" >>) }

\* an item as the Item Builder stores it
SoldItem(description, line_total, status, tax_amount) ==
  [DefaultItem EXCEPT !.description = description, !.total = line_total,
                      !.tax_status = status, !.tax_amount = tax_amount,
                      !.final_price = IF tax_amount = << >> THEN line_total
                                      ELSE FloatStr(FloatVal(line_total) + FloatVal(tax_amount))]

\* an assembled receipt
Receipt(id, rec_total, items) ==
  [GetEmptyResult(Str(id)) EXCEPT
     !.transaction.total = rec_total,
     !.transaction.date = IF id = << >> THEN << >>
                          ELSE << "2", "0", "2", "4", "-", "0", "1", "-", "0", id[Len(id)] >>,
     !.merchant.name = IF id = << >> THEN << >> ELSE << "S", "h", "o", "p", " " >> \o id,
     !.merchant.address = IF id = << >> THEN << >>
                          ELSE << id[Len(id)], " ", "M", "a", "i", "n", " ", "S", "t", ",", " ", "O", "N" >>,
     !.items = items]

Milk == << "M", "i", "l", "k" >>

Soap == << "S", "o", "a", "p" >>

\* assembled receipts: with and without a total, with and without items,
\* two of them with the same id, items with and without a line total
Receipts ==
  { Receipt(<< "r", "1" >>, FloatStr(1000),
            << SoldItem(Milk, FloatStr(30), "EXEMPT", << >>) >>),
    Receipt(<< "r", "1" >>, << >>,
            << SoldItem(Soap, FloatStr(10), "TAXABLE", FloatStr(1)),
               SoldItem(Soap, FloatStr(20), "TAXABLE", FloatStr(3)) >>),
    Receipt(<< "r", "2" >>, FloatStr(30),
            << SoldItem(Soap, FloatStr(300), "TAXABLE", FloatStr(39)),
               SoldItem(Milk, << >>, "UNKNOWN", << >>),
               SoldItem(<< "P", "i", "z", "z", "a" >>, FloatStr(300), "UNKNOWN", << >>) >>),
    Receipt(<< "r", "3" >>, FloatStr(10), << >>),
    Receipt(<< "r", "4" >>, FloatStr(20),
            << SoldItem(Milk, FloatStr(300), "ZERO-RATED", << >>) >>),
    Receipt(<< >>, << >>, << >>),
    Receipt(<< "r", "5" >>, FloatStr(550),
            << SoldItem(<< "T", "a", "x", "i" >>, FloatStr(250), "TAXABLE", FloatStr(33)),
               SoldItem(<< "R", "e", "u", "s", "a", "b", "l", "e", " ", "B", "a", "g" >>,
                        FloatStr(100), "TAXABLE", FloatStr(13)) >>) }

\* the lists of at most n assembled receipts
ReceiptLists(n) == UNION { [1..m -> Receipts] : m \in 0..n }

\* a list argument
List(items) == [t |-> "list", items |-> items]

InitHelpers ==
  \/ \E f \in ExtractInputs : InitCall("_extract_field_value", f)
  \/ \E v \in CurrencyInputs : InitCall("_clean_currency", v)
  \/ \E v \in CurrencyInputs : InitCall("normalize_currency", v)
  \/ \E v \in QuantityInputs : InitCall("_clean_quantity", v)
  \/ \E v \in CategorizeInputs : InitCall("_categorize_item", v)
  \/ \E l \in ReceiptLists(MaxReceipts) : InitCall("generate_summary_report", List(l))
  \/ \E l \in ReceiptLists(MaxReceipts) : InitCall("_prepare_excel_data", List(l))
  \/ \E l \in ReceiptLists(MaxReceipts) : InitCall("_save_results_excel", List(l))
  \/ \E l \in ReceiptLists(MaxReceipts) : InitCall("_save_results_csv", List(l))
  \/ \E l \in ReceiptLists(MaxReceipts) : InitCall("save_results", List(l))

\* _extract_field_value(field) runs to its end
ExtractReturns ==
  /\ call.fn = "_extract_field_value"
  /\ call.state = "called"
  /\ call' = IF call.arg # NoneV /\ call.arg.raises
             THEN [call EXCEPT !.state = "raised"]
             ELSE [call EXCEPT !.state = "returned",
                               !.ret = ExtractFieldValue(call.arg)]
  /\ UNCHANGED Pipeline

\* _clean_currency(value) returns
CleanCurrencyReturns ==
  /\ call.fn = "_clean_currency"
  /\ call.state = "called"
  /\ call' = [call EXCEPT !.state = "returned", !.ret = CleanCurrency(call.arg)]
  /\ UNCHANGED Pipeline

\* normalize_currency(amount) returns
NormalizeCurrencyReturns ==
  /\ call.fn = "normalize_currency"
  /\ call.state = "called"
  /\ call' = [call EXCEPT !.state = "returned", !.ret = NormalizeCurrency(call.arg)]
  /\ UNCHANGED Pipeline

\* _clean_quantity(value) returns
CleanQuantityReturns ==
  /\ call.fn = "_clean_quantity"
  /\ call.state = "called"
  /\ call' = [call EXCEPT !.state = "returned", !.ret = Str(CleanQuantity(call.arg))]
  /\ UNCHANGED Pipeline

\* _clean_quantity is called again on the text it returned
CleanQuantityAgain ==
  /\ call.fn = "_clean_quantity"
  /\ call.state = "returned"
  /\ call' = [call EXCEPT !.state = "returned again", !.arg = call.ret,
                          !.ret = Str(CleanQuantity(call.ret))]
  /\ UNCHANGED Pipeline

\* _categorize_item(description) returns
CategorizeReturns ==
  /\ call.fn = "_categorize_item"
  /\ call.state = "called"
  /\ call' = [call EXCEPT !.state = "returned", !.ret = Str(CategorizeItem(call.arg))]
  /\ UNCHANGED Pipeline

\* generate_summary_report(results) returns
SummaryReturns ==
  /\ call.fn = "generate_summary_report"
  /\ call.state = "called"
  /\ call' = [call EXCEPT !.state = "returned",
                          !.ret = GenerateSummaryReport(call.arg.items)]
  /\ UNCHANGED Pipeline

\* _prepare_excel_data(results) returns
PrepareReturns ==
  /\ call.fn = "_prepare_excel_data"
  /\ call.state = "called"
  /\ call' = [call EXCEPT !.state = "returned", !.ret = PrepareExcelData(call.arg.items)]
  /\ UNCHANGED Pipeline

\* the frame of a call that has returned what the writer w gives
Returned(w) ==
  [fn |-> call.fn, state |-> "returned", arg |-> call.arg, ret |-> w.ret,
   files |-> w.files, rows |-> w.rows, tried |-> w.tried]

\* the outcomes of the primary Excel writer
ExcelOutcomes == {"saved", "build fails", "write fails"}

\* _save_results_excel(results, output_file_path) returns
SaveExcelReturns ==
  /\ call.fn = "_save_results_excel"
  /\ call.state = "called"
  /\ \E excel \in ExcelOutcomes, csv_ok \in BOOLEAN :
       call' = Returned(SaveResultsExcel(call.arg.items, XlsxPath, excel, csv_ok))
  /\ UNCHANGED Pipeline

\* _save_results_csv(results, output_file_path) returns
SaveCsvReturns ==
  /\ call.fn = "_save_results_csv"
  /\ call.state = "called"
  /\ \E csv_ok \in BOOLEAN :
       call' = Returned(SaveResultsCsv(call.arg.items, CsvPathOf(XlsxPath), csv_ok))
  /\ UNCHANGED Pipeline

\* save_results(results) returns; env is kept in the frame
SaveResultsReturns ==
  /\ call.fn = "save_results"
  /\ call.state = "called"
  /\ \E json_ok, csv_ok, simple_ok \in BOOLEAN, excel \in ExcelOutcomes :
       LET env == [json_ok |-> json_ok, excel |-> excel, csv_ok |-> csv_ok,
                   simple_ok |-> simple_ok]
       IN call' = [Returned(SaveResults(call.arg.items, env)) EXCEPT !.arg =
                     [t |-> "list", items |-> call.arg.items, env |-> env]]
  /\ UNCHANGED Pipeline

NextHelpers ==
  \/ ExtractReturns
  \/ CleanCurrencyReturns
  \/ NormalizeCurrencyReturns
  \/ CleanQuantityReturns
  \/ CleanQuantityAgain
  \/ CategorizeReturns
  \/ SummaryReturns
  \/ PrepareReturns
  \/ SaveExcelReturns
  \/ SaveCsvReturns
  \/ SaveResultsReturns

SpecHelpers == InitHelpers /\ [][NextHelpers]_vars

\* ------------------------------------------------------------------------
\* Receipt analysis: analyze_receipt under its retry decorator
\* ------------------------------------------------------------------------
\* stop_after_attempt(3)
MaxAttempts == 3

\* max_wait_time, in seconds
MaxWaitTime == 60

\* poll_interval, in seconds
PollInterval == 5

\* min_wait_time of the rate limiter, in seconds
MinWaitTime == 30

\* time.time() at the call, in seconds
CallTime == 1000

\* os.path.basename(path)
RECURSIVE Basename(_)
Basename(path) ==
  IF path = << >> THEN path
  ELSE IF path[Len(path)] = "/" THEN << >>
  ELSE Append(Basename(SubSeq(path, 1, Len(path) - 1)), path[Len(path)])

\* lines 160-166: the name used in the log and in the empty results
ImageName(arg, now) ==
  IF Truthy(arg.image_id) THEN arg.image_id
  ELSE IF Truthy(arg.image_url) THEN Str(Basename(arg.image_url.s))
  ELSE Str(<< "r", "e", "c", "e", "i", "p", "t", "_" >> \o NatStr(now))

\* time.time() after a time.sleep(seconds) that began at t and overran by lag
Slept(t, seconds, lag) == t + seconds + lag

\* by how much a sleep overruns, in seconds
Lags == {0, 1}

\* the timeout test with >= for >
TimedOutOnTheMinute(frame) == (frame.now - frame.start_time) >= MaxWaitTime

\* (time.time() - start_time) > max_wait_time
TimedOut(frame) == (frame.now - frame.start_time) > MaxWaitTime

\* what poller.status() answers: the operation states of the service and
\* the first state of the poller
Statuses == {"notStarted", "running", "succeeded", "failed", "canceled", "InProgress"}

\* an exception of the try block that reaches the decorator
Propagated(frame, name, log) ==
  [frame EXCEPT !.state = "raised", !.log = log]

\* lines 226-237: an exception of the try block is logged and the empty
\* result returned; the early returns of the try block end the same way
Handled(frame, name, log) ==
  [frame EXCEPT !.state = "returned", !.ret = GetEmptyResult(name), !.log = log]

\* what poller.result() hands over: nothing, a malformed object, a result
\* without documents, a document without fields or with one field
ServiceEntries ==
  { e \in GeneralEntries : e[1] \in {"MerchantName", "MerchantPhoneNumber", "PaymentType"} }

ServiceResults ==
  { r \in Degenerate : r.content = NoneV /\ (r.documents = << >> \/ r.documents[1].doc_type = NoneV) }
    \cup { WithFields(Str(<< "t", "e", "x", "t" >>), Str(<< "r", "e", "c", "e", "i", "p", "t" >>), f) :
             f \in FieldSeqs(ServiceEntries, 1) \ { << >> } }

\* the arguments of a call; image_data stands as a text
ImageUrls == { NoneV, Str(<< >>), Str(<< "h", "/", "r", ".", "j" >>) }

ImageData == { NoneV, Str(<< "b" >>) }

AnalyzeArgs ==
  { [image_url |-> u, image_data |-> d, image_id |-> id] :
      u \in ImageUrls, d \in ImageData, id \in ImageIds }

\* self.last_request_time: 0 on a fresh analyzer, else the time of an
\* earlier request
LastRequestTimes == { 0, CallTime - 10 }

\* the frame of a call: its position, the decorator's attempt counter, the
\* requests submitted to the service, the clock, the rate limiter's
\* last_request_time, the loop's start_time, whether poller.cancel() was
\* called, and the last message logged
AnalyzeCall(arg, last) ==
  [fn |-> "analyze_receipt", state |-> "called", arg |-> arg, ret |-> NoneV,
   image_name |-> NoneV, attempt |-> 1, requests |-> 0, now |-> CallTime,
   last_request_time |-> last, start_time |-> 0,
   cancelled |-> FALSE, log |-> ""]

InitAnalyze ==
  \E arg \in AnalyzeArgs, last \in LastRequestTimes :
    /\ receipts = NoneV
    /\ image_id = NoneV
    /\ pc = "idle"
    /\ i = 0
    /\ result = GetEmptyResult(NoneV)
    /\ outcome = "running"
    /\ total_tax = NoneV
    /\ tax_rates = << >>
    /\ tax_amounts = << >>
    /\ tax_types = << >>
    /\ subtotal = NoneV
    /\ total = NoneV
    /\ has_hst = FALSE
    /\ hst_number_found = FALSE
    /\ skipped = {}
    /\ call = AnalyzeCall(arg, last)

Analyzing(state) == call.fn = "analyze_receipt" /\ call.state = state

\* lines 156-168: the argument check and the image name
CheckArguments ==
  /\ Analyzing("called")
  /\ call' =
       IF ~Truthy(call.arg.image_url) /\ ~Truthy(call.arg.image_data)
       THEN [call EXCEPT !.state = "returned",
                         !.ret = GetEmptyResult(call.arg.image_id),
                         !.log = "no image"]
       ELSE [call EXCEPT !.state = "limit",
                         !.image_name = ImageName(call.arg, call.now),
                         !.log = "starting"]
  /\ UNCHANGED Pipeline

\* lines 94-104, called at line 171: _wait_for_rate_limit
WaitForRateLimit ==
  /\ Analyzing("limit")
  /\ LET elapsed == call.now - call.last_request_time IN
       IF elapsed < MinWaitTime
       THEN \E lag \in Lags :
              LET woke == Slept(call.now, MinWaitTime - elapsed, lag) IN
                call' = [call EXCEPT !.state = "submit", !.now = woke,
                                     !.last_request_time = woke]
       ELSE call' = [call EXCEPT !.state = "submit",
                                 !.last_request_time = call.now]
  /\ UNCHANGED Pipeline

\* lines 172-181: the request is submitted; begin_analyze_document answers
\* with a poller or raises
SubmitOutcomes == {"accepted", "http error", "error"}

Submit ==
  /\ Analyzing("submit")
  /\ \E answer \in SubmitOutcomes :
       LET sent == [call EXCEPT !.requests = call.requests + 1] IN
         call' =
           IF answer = "accepted"
           THEN [sent EXCEPT !.state = "poll", !.start_time = call.now,
                             !.log = "polling"]
           ELSE Handled(sent, call.image_name, answer)
  /\ UNCHANGED Pipeline

\* lines 185-210: one pass of the polling loop; reading the status, the
\* error details or cancelling may raise
PollAnswers == Statuses \cup {"raises"}

Poll ==
  /\ Analyzing("poll")
  /\ \E status \in PollAnswers, cancel \in {"done", "raises"} :
       call' =
         IF status = "raises"
         THEN Handled(call, call.image_name, "error")
         ELSE IF status = "succeeded"
         THEN [call EXCEPT !.state = "retrieve", !.log = "succeeded"]
         ELSE IF status = "failed"
         THEN Handled(call, call.image_name, "failed")
         ELSE IF TimedOut(call)
         THEN Handled([call EXCEPT !.cancelled = TRUE],
                      call.image_name,
                      IF cancel = "done" THEN "timed out" ELSE "error")
         ELSE [call EXCEPT !.now = Slept(call.now, PollInterval, 0)]
  /\ UNCHANGED Pipeline

\* lines 216-224: the result is retrieved and handed to
\* _process_receipt_result
Retrieve ==
  /\ Analyzing("retrieve")
  /\ \E answer \in {"result", "raises"}, r \in ServiceResults :
       IF answer = "raises" \/ r.state = "malformed"
       THEN /\ call' = Handled(call, call.image_name, "retrieve error")
            /\ UNCHANGED Pipeline
       ELSE IF r.state = "none" \/ r.documents = << >>
       THEN /\ call' = Handled(call, call.image_name, "no documents")
            /\ UNCHANGED Pipeline
       ELSE /\ call' = [call EXCEPT !.state = "processing", !.log = "processing"]
            /\ receipts' = r
            /\ image_id' = call.image_name
            /\ pc' = "start"
            /\ i' = 0
            /\ result' = GetEmptyResult(call.image_name)
            /\ outcome' = "running"
            /\ total_tax' = NoneV
            /\ tax_rates' = << >>
            /\ tax_amounts' = << >>
            /\ tax_types' = << >>
            /\ subtotal' = NoneV
            /\ total' = NoneV
            /\ has_hst' = FALSE
            /\ hst_number_found' = FALSE
            /\ skipped' = {}

\* lines 224-228: _process_receipt_result returns, or its exception is
\* caught by the inner handler
ProcessReturns ==
  /\ Analyzing("processing")
  /\ pc = "done"
  /\ call' =
       IF outcome = "returned"
       THEN [call EXCEPT !.state = "returned", !.ret = result, !.log = "processed"]
       ELSE Handled(call, call.image_name, "retrieve error")
  /\ UNCHANGED Pipeline

\* line 143: the decorator hands the returned value to the caller; after an
\* exception it calls the function again, up to stop_after_attempt(3) times,
\* and then raises RetryError
Retrying ==
  /\ call.fn = "analyze_receipt"
  /\ call.state \in {"returned", "raised"}
  /\ call' =
       IF call.state = "returned" THEN [call EXCEPT !.state = "done"]
       ELSE IF call.attempt < MaxAttempts
       THEN [call EXCEPT !.state = "called", !.attempt = call.attempt + 1,
                         !.now = Slept(call.now, 4, 0)]
       ELSE [call EXCEPT !.state = "retry error"]
  /\ UNCHANGED Pipeline

NextAnalyze ==
  \/ CheckArguments
  \/ WaitForRateLimit
  \/ Submit
  \/ Poll
  \/ Retrieve
  \/ Next
  \/ ProcessReturns
  \/ Retrying

SpecAnalyze == InitAnalyze /\ [][NextAnalyze]_vars

\* every step of the call is taken in the end: the calls to the service
\* return and time.sleep ends
SpecAnalyzeFair == SpecAnalyze /\ WF_vars(NextAnalyze)

\* ------------------------------------------------------------------------
\* Properties of the Receipt Assembler
\* ------------------------------------------------------------------------
\* the call has returned
Done == pc = "done"

\* the input has a first document with a non-empty field mapping
HasFields ==
  /\ receipts.state = "ok"
  /\ receipts.documents # << >>
  /\ Doc.fields_state = "map"
  /\ Doc.fields # << >>

\* the loop over the fields was entered and the receipt assembled
Assembled ==
  Done /\ HasFields /\ ~(HasField("MerchantTaxId") /\ Bad(FieldNamed("MerchantTaxId")))

\* position of a field in the iteration order
IndexOf(name) == CHOOSE k \in DOMAIN DocFields : DocFields[k][1] = name

\* the sum of the amounts of a breakdown
RECURSIVE BreakdownSum(_)
BreakdownSum(arr) ==
  IF arr = << >> THEN 0
  ELSE (IF Head(arr).object = "map" /\ CurrencyOf(Head(arr).value_object, "Amount") # NoneV
        THEN CurrencyOf(Head(arr).value_object, "Amount").n ELSE 0)
       + BreakdownSum(Tail(arr))

\* the parsed amount of the top-level TotalTax field
TopLevelTax == CleanCurrency(ExtractFieldValue(FieldNamed("TotalTax")))

\* every entry of the breakdown is an object with a parsable amount
EveryEntryHasAmount(arr) ==
  \A k \in DOMAIN arr :
    /\ arr[k].object = "map"
    /\ CurrencyOf(arr[k].value_object, "Amount") # NoneV

\* a parsable TotalTax and a non-empty breakdown whose entries all have an
\* amount and are read without a fault are both present, and disagree
TaxDisagreement ==
  /\ Assembled
  /\ HasField("TotalTax") /\ ~Bad(FieldNamed("TotalTax")) /\ TopLevelTax # NoneV
  /\ HasField("TaxDetails") /\ TruthyArray(FieldNamed("TaxDetails"))
  /\ ~ArrayRaises(FieldNamed("TaxDetails").value_array, TaxKeys)
  /\ EveryEntryHasAmount(FieldNamed("TaxDetails").value_array)
  /\ BreakdownSum(FieldNamed("TaxDetails").value_array) # TopLevelTax.n

\* C1: whenever a parsable TotalTax and a non-empty TaxDetails breakdown
\* disagree, in any order of the fields, the final transaction.tax and
\* tax_details.total_tax are the sum of the breakdown's amounts.
C1_BreakdownWins ==
  TaxDisagreement =>
    /\ result.transaction.tax
         = FloatStr(BreakdownSum(FieldNamed("TaxDetails").value_array))
    /\ result.transaction.tax_details.total_tax
         = FloatStr(BreakdownSum(FieldNamed("TaxDetails").value_array))

\* what the receipt holds for a scalar field that was read without a fault
Carried(field_name, field) ==
  LET value == ExtractFieldValue(field) IN
    CASE field_name = "MerchantName" -> result.merchant.name = StrOr(value)
      [] field_name = "MerchantAddress" -> result.merchant.address = StrOr(value)
      [] field_name = "MerchantPhoneNumber" -> result.merchant.phone = StrOr(value)
      [] field_name = "TransactionDate" -> result.transaction.date = StrOr(value)
      [] field_name = "TransactionTime" -> result.transaction.time = StrOr(value)
      [] field_name = "Total" -> result.transaction.total = StrOpt(CleanCurrency(value))
      [] field_name = "Subtotal" ->
           result.transaction.subtotal = StrOpt(CleanCurrency(value))
      [] field_name = "ChangeDue" ->
           result.payment.change_due = StrOpt(CleanCurrency(value))
      [] OTHER -> TRUE

\* a field of the document raises when it is processed
SomeFieldRaises == \E k \in DOMAIN DocFields : Bad(DocFields[k][2])

\* C2: when processing one field raises (the MerchantTaxId field included),
\* only that field is skipped: the returned receipt carries the value of
\* every field that was read without a fault.
C2_OnlyFaultyFieldSkipped ==
  (Done /\ HasFields /\ SomeFieldRaises) =>
    \A k \in DOMAIN DocFields :
      ~Bad(DocFields[k][2]) => Carried(DocFields[k][1], DocFields[k][2])

\* the breakdown comes after TotalTax in the iteration order: there its sum
\* is the final tax
BreakdownLastWins ==
  (TaxDisagreement /\ IndexOf("TotalTax") < IndexOf("TaxDetails")) =>
    result.transaction.tax
      = FloatStr(BreakdownSum(FieldNamed("TaxDetails").value_array))

\* the same, for documents whose MerchantTaxId field does not raise
FaultToleranceOutsideTaxId ==
  (Assembled /\ SomeFieldRaises) =>
    \A k \in DOMAIN DocFields :
      ~Bad(DocFields[k][2]) => Carried(DocFields[k][1], DocFields[k][2])

ResultKeys ==
  {"image_id", "extracted_text", "receipt_type", "merchant", "transaction",
   "items", "payment"}

\* the dict has the keys of the empty-result structure
WellFormed(r) ==
  /\ ResultKeys \subseteq DOMAIN r
  /\ DOMAIN r.merchant = {"name", "address", "phone", "tax_id", "gst_hst_number"}
  /\ DOMAIN r.transaction = {"date", "time", "total", "subtotal", "tax", "tax_details"}
  /\ DOMAIN r.transaction.tax_details
       = {"total_tax", "tax_rates", "tax_amounts", "tax_types", "has_hst"}
  /\ DOMAIN r.payment = {"type", "amount", "card_number", "change_due"}

\* every field but image_id, extracted_text and receipt_type has its default
DefaultBody(r) ==
  /\ \A k \in DOMAIN r.merchant : r.merchant[k] = << >>
  /\ \A k \in {"date", "time", "total", "subtotal", "tax"} : r.transaction[k] = << >>
  /\ r.transaction.tax_details.total_tax = << >>
  /\ r.transaction.tax_details.tax_rates = << >>
  /\ r.transaction.tax_details.tax_amounts = << >>
  /\ r.transaction.tax_details.tax_types = << >>
  /\ r.transaction.tax_details.has_hst = FALSE
  /\ r.items = << >>
  /\ \A k \in DOMAIN r.payment : r.payment[k] = << >>

\* the all-default receipt; only the id may differ
AllDefault(r) ==
  /\ DefaultBody(r)
  /\ r.extracted_text = << >>
  /\ r.receipt_type = NoneV

\* the whole result object is malformed, or the early look at
\* MerchantTaxId raises
CriticalInput ==
  \/ receipts.state = "malformed"
  \/ /\ receipts.state = "ok" /\ receipts.documents # << >>
     /\ Doc.fields_state = "none"
  \/ HasFields /\ HasField("MerchantTaxId") /\ Bad(FieldNamed("MerchantTaxId"))

\* C3: _process_receipt_result never propagates an exception: it returns a
\* dict with all the keys of the empty-result structure, and on a critical
\* fault the all-default receipt with the given image_id ("unknown" standing
\* for an id that was not given).
C3_AlwaysReturnsReceipt ==
  /\ outcome # "raised"
  /\ Done =>
       /\ outcome = "returned"
       /\ WellFormed(result)
       /\ CriticalInput =>
            /\ AllDefault(result)
            /\ result.image_id = IF Truthy(image_id) THEN image_id ELSE Str(Unknown)

C3_Witness ==
  /\ Done
  /\ HasFields /\ HasField("MerchantTaxId") /\ Bad(FieldNamed("MerchantTaxId"))
  /\ Len(DocFields) > 1
  /\ image_id = Str(<< "r", "1" >>)
  /\ result.image_id = image_id
  /\ AllDefault(result)

\* the remote result has no document
NoDocument ==
  receipts.state = "none" \/ (receipts.state = "ok" /\ receipts.documents = << >>)

\* the first document has no fields
NoFields ==
  /\ receipts.state = "ok"
  /\ receipts.documents # << >>
  /\ Doc.fields_state \in {"absent", "none"} \/ Doc.fields = << >>

RawItems ==
  IF HasFields /\ HasField("Items") THEN FieldNamed("Items").value_array ELSE << >>

\* the description extracted from a raw line item
RawDescription(e) ==
  IF e.object = "map" /\ "Description" \in DOMAIN e.value_object
  THEN StrOr(ExtractFieldValue(e.value_object.Description))
  ELSE << >>

\* the raw line items that have a nested object and a non-empty description
KeptRaw == SelectSeq(RawItems, LAMBDA e : e.object = "map" /\ RawDescription(e) # << >>)

\* the raw line item a retained item was built from
RawOf(k) == KeptRaw[k].value_object

\* the quantity of a retained item
QuantityOf(item) == IF FloatOk(item.quantity) THEN FloatVal(item.quantity) ELSE 0

\* x is the quotient a / b rounded to the nearest unit
Nearest(x, a, b) == 2 * Abs(x * b - a) <= b

\* C5: for an item with a positive quantity q: a present line total and an
\* absent unit price give price = round(total / q, 2); a present unit price
\* and an absent line total give total = round(price * q, 2); when both are
\* present both are unchanged; when both are absent both stay absent.
C5_MissingSideInferred ==
  \A k \in DOMAIN result.items :
    LET item == result.items[k]
        q == QuantityOf(item)
        raw == RawOf(k)
        raw_price == CurrencyOf(raw, "Price")
        raw_total == CurrencyOf(raw, "TotalPrice")
        price_unchanged == item.price = StrOpt(raw_price)
        total_unchanged == item.total = StrOpt(raw_total)
    IN  q > 0 =>
          /\ (raw_total # NoneV /\ raw_price = NoneV) =>
               /\ total_unchanged
               /\ FloatOk(item.price)
               /\ Nearest(FloatVal(item.price), 100 * raw_total.n, q)
          /\ (raw_price # NoneV /\ raw_total = NoneV) =>
               /\ price_unchanged
               /\ FloatOk(item.total)
               /\ Nearest(FloatVal(item.total), raw_price.n * q, 100)
          /\ (raw_price # NoneV /\ raw_total # NoneV) => price_unchanged /\ total_unchanged
          /\ (raw_price = NoneV /\ raw_total = NoneV) => item.price = << >> /\ item.total = << >>

C5_Witness ==
  /\ Done
  /\ \E k \in DOMAIN result.items :
       /\ QuantityOf(result.items[k]) = 300
       /\ CurrencyOf(RawOf(k), "Price") = NoneV
       /\ CurrencyOf(RawOf(k), "TotalPrice") = Num(1000)
       /\ result.items[k].price = << "3", ".", "3", "3" >>
  /\ \E k \in DOMAIN result.items :
       /\ QuantityOf(result.items[k]) = 250
       /\ CurrencyOf(RawOf(k), "TotalPrice") = NoneV
       /\ result.items[k].total = << "7", ".", "5", "2" >>

\* C6: for an item with quantity zero and exactly one of unit price and line
\* total extracted, the missing side stays absent.
C6_ZeroQuantityInfersNothing ==
  \A k \in DOMAIN result.items :
    LET item == result.items[k]
        raw == RawOf(k)
        raw_price == CurrencyOf(raw, "Price")
        raw_total == CurrencyOf(raw, "TotalPrice")
    IN  (FloatOk(item.quantity) /\ QuantityOf(item) = 0) =>
          /\ (raw_total # NoneV /\ raw_price = NoneV) => item.price = << >>
          /\ (raw_price # NoneV /\ raw_total = NoneV) => item.total = << >>

\* the line total present and the unit price absent: no price is inferred for
\* quantity zero
ZeroQuantityInfersNoPrice ==
  \A k \in DOMAIN result.items :
    (/\ FloatOk(result.items[k].quantity) /\ QuantityOf(result.items[k]) = 0
     /\ CurrencyOf(RawOf(k), "Price") = NoneV) => result.items[k].price = << >>

\* the Items field has been processed to its end without a fault
ItemsRead ==
  /\ HasFields /\ HasField("Items")
  /\ pc \in {"loop", "done"} /\ i > IndexOf("Items")
  /\ "Items" \notin skipped
  /\ Assembled \/ pc = "loop"

\* C7: every item of the returned receipt has a non-empty description; raw
\* items without a nested object or with an empty description are dropped,
\* and the retained items keep their relative order.
C7_ItemsHaveDescription ==
  LET kept == KeptRaw IN
    /\ \A k \in DOMAIN result.items : result.items[k].description # << >>
    /\ Len(result.items) <= Len(kept)
    /\ \A k \in DOMAIN result.items :
         LET raw == kept[k].value_object IN
           /\ result.items[k].description = RawDescription(kept[k])
           /\ result.items[k].quantity
                = (IF "Quantity" \in DOMAIN raw
                   THEN CleanQuantity(ExtractFieldValue(raw.Quantity))
                   ELSE DefaultItem.quantity)
    /\ ItemsRead => Len(result.items) = Len(kept)

C7_Witness ==
  /\ Done /\ ItemsRead
  /\ Len(RawItems) = 2
  /\ Len(result.items) = 1
  /\ RawDescription(RawItems[1]) = << >>
  /\ result.items[1].description = RawDescription(RawItems[2])

\* the description holds one of the tax keywords
ZeroKeyword(description) ==
  Contains(<< "Z", "E", "R", "O" >>, Upper(description)) \/ Contains(<< "0", "%" >>, Upper(description))
ExemptKeyword(description) == Contains(<< "E", "X", "E", "M", "P", "T" >>, Upper(description))

\* C8: an item whose description holds no tax keyword is TAXABLE exactly when
\* the receipt's final has_hst flag is true, and UNKNOWN otherwise, whatever
\* the order of the fields.
C8_StatusFollowsFinalFlag ==
  Assembled =>
    \A k \in DOMAIN result.items :
      LET item == result.items[k] IN
        (~ZeroKeyword(item.description) /\ ~ExemptKeyword(item.description)) =>
          item.tax_status
            = IF result.transaction.tax_details.has_hst THEN "TAXABLE" ELSE "UNKNOWN"

\* the status follows the flag as it stands when the Items field is processed
StatusFollowsFlagAtItems ==
  (Assembled /\ HasField("Items") /\ HasField("TaxDetails")
     /\ IndexOf("TaxDetails") < IndexOf("Items")) =>
    \A k \in DOMAIN result.items :
      LET item == result.items[k] IN
        (~ZeroKeyword(item.description) /\ ~ExemptKeyword(item.description)) =>
          item.tax_status
            = IF result.transaction.tax_details.has_hst THEN "TAXABLE" ELSE "UNKNOWN"

\* C9: a description holding "zero" or "0%" in any case makes the item
\* ZERO-RATED, and otherwise one holding "exempt" makes it EXEMPT, whether
\* the HST flag is true or false; such an item has no tax amount.
C9_KeywordOverrides ==
  \A k \in DOMAIN result.items :
    LET item == result.items[k] IN
      /\ ZeroKeyword(item.description) =>
           item.tax_status = "ZERO-RATED" /\ item.tax_amount = << >>
      /\ (ExemptKeyword(item.description) /\ ~ZeroKeyword(item.description)) =>
           item.tax_status = "EXEMPT" /\ item.tax_amount = << >>

C9_Witness ==
  /\ Done
  /\ result.transaction.tax_details.has_hst
  /\ HasField("TaxDetails") /\ IndexOf("TaxDetails") < IndexOf("Items")
  /\ \E k \in DOMAIN result.items :
       /\ result.items[k].description = << "Z", "e", "r", "o", " ", "r", "a", "t", "e", "d" >>
       /\ result.items[k].tax_status = "ZERO-RATED"
       /\ result.items[k].total # << >>
  /\ \E k \in DOMAIN result.items :
       /\ result.items[k].tax_status = "EXEMPT"
       /\ result.items[k].total # << >>

\* C10: an item has a tax amount only if its status is TAXABLE, its line
\* total is known and the receipt's final has_hst flag is true.
C10_TaxAmountOnlyWhenTaxable ==
  Done =>
    \A k \in DOMAIN result.items :
      result.items[k].tax_amount # << >> =>
        /\ result.items[k].tax_status = "TAXABLE"
        /\ result.items[k].total # << >>
        /\ result.transaction.tax_details.has_hst

C10_Witness ==
  /\ Done
  /\ \E k \in DOMAIN result.items :
       /\ result.items[k].tax_amount # << >>
       /\ result.items[k].tax_status = "TAXABLE"
  /\ \E k \in DOMAIN result.items :
       /\ result.items[k].tax_amount = << >>
       /\ result.items[k].total # << >>

\* the rate a tax amount is computed with: the first rate the final receipt
\* records, the fallback rate when it records none
FinalPrimaryRate ==
  IF result.transaction.tax_details.tax_rates # << >>
  THEN result.transaction.tax_details.tax_rates[1]
  ELSE DefaultRate

\* the item is TAXABLE with a known line total in a receipt flagged for the
\* regional tax
TaxableWithTotal(item) ==
  /\ item.tax_status = "TAXABLE"
  /\ result.transaction.tax_details.has_hst
  /\ item.total # << >>

\* C11: an item that is TAXABLE with the regional-tax flag set and a known
\* line total has the tax amount round(lineTotal * primaryRate, 2), the
\* primary rate being the first recorded rate, and 0.13 when no rate was
\* recorded (breakdown entries with an amount and no parsable rate included).
C11_TaxAmountFromPrimaryRate ==
  Assembled =>
    \A k \in DOMAIN result.items :
      LET item == result.items[k] IN
        TaxableWithTotal(item) =>
          /\ FloatOk(item.tax_amount)
          /\ Nearest(FloatVal(item.tax_amount),
                     FloatVal(item.total) * FinalPrimaryRate, 100)

\* every breakdown entry that has an amount has a parsable rate
RatesParsable ==
  HasField("TaxDetails") =>
    \A k \in DOMAIN FieldNamed("TaxDetails").value_array :
      LET e == FieldNamed("TaxDetails").value_array[k] IN
        (e.object = "map" /\ CurrencyOf(e.value_object, "Amount") # NoneV) =>
          TaxRate(e.value_object) # NoneV

\* the tax amount is the rounded product when no recorded rate is None
TaxAmountWhenRatesParsable ==
  (Assembled /\ RatesParsable) =>
    \A k \in DOMAIN result.items :
      LET item == result.items[k] IN
        TaxableWithTotal(item) =>
          /\ FloatOk(item.tax_amount)
          /\ Nearest(FloatVal(item.tax_amount),
                     FloatVal(item.total) * FinalPrimaryRate, 100)

\* C12: for every retained item the final price is present exactly when the
\* line total is present; it is lineTotal + taxAmount when a tax amount was
\* computed, and the line total otherwise.
C12_FinalPrice ==
  \A k \in DOMAIN result.items :
    LET item == result.items[k] IN
      /\ item.final_price # << >> <=> item.total # << >>
      /\ item.tax_amount # << >> =>
           /\ FloatOk(item.final_price)
           /\ FloatVal(item.final_price)
                = FloatVal(item.total) + FloatVal(item.tax_amount)
      /\ item.tax_amount = << >> => item.final_price = item.total

C12_Witness ==
  /\ Done
  /\ \E k \in DOMAIN result.items :
       /\ result.items[k].total = << "1", "0", ".", "0" >>
       /\ result.items[k].tax_amount = << "1", ".", "3" >>
       /\ result.items[k].final_price = << "1", "1", ".", "3" >>
  /\ \E k \in DOMAIN result.items :
       /\ result.items[k].total = << >>
       /\ result.items[k].final_price = << >>

\* the document has a MerchantTaxId field that is read without a fault
TaxIdRead == Assembled /\ HasField("MerchantTaxId")

\* the text is an HST or GST marker followed by nine digits, with its
\* optional separators and RT suffix
LooksLikeHstNumber(s) ==
  /\ Len(s) >= 12
  /\ Upper(SubSeq(s, 1, 3)) \in { << "H", "S", "T" >>, << "G", "S", "T" >> }
  /\ Cardinality({ k \in DOMAIN s : s[k] \in Digits }) \in {9, 13}

\* C13: for a MerchantTaxId with a non-empty value: on a match of the
\* HST/GST number pattern merchant.gst_hst_number is the matched text, the
\* final has_hst is true and merchant.tax_id stays empty; otherwise
\* merchant.tax_id is the value and gst_hst_number stays empty. The two are
\* never both non-empty.
C13_TaxIdOrHstNumber ==
  /\ Done => (result.merchant.tax_id = << >> \/ result.merchant.gst_hst_number = << >>)
  /\ (TaxIdRead /\ TaxIdText # << >>) =>
       IF HstFound(TaxIdText)
       THEN /\ result.merchant.gst_hst_number = HstGroup0(TaxIdText)
            /\ Contains(result.merchant.gst_hst_number, TaxIdText)
            /\ LooksLikeHstNumber(result.merchant.gst_hst_number)
            /\ result.transaction.tax_details.has_hst
            /\ result.merchant.tax_id = << >>
       ELSE /\ result.merchant.tax_id = TaxIdText
            /\ result.merchant.gst_hst_number = << >>

C13_Witness ==
  /\ TaxIdRead
  /\ TaxIdText = << "x", " ", "g", "s", "t", " ", "1", "2", "3", "4", "5", "6", "7", "8", "9", " ", " ", "z" >>
  /\ result.merchant.gst_hst_number = << "g", "s", "t", " ", "1", "2", "3", "4", "5", "6", "7", "8", "9", " ", " " >>
  /\ result.transaction.tax_details.has_hst
  /\ Len(DocFields) > 1

\* ------------------------------------------------------------------------
\* Properties of the Tax Reconciler
\* ------------------------------------------------------------------------
\* the breakdown of the document
Breakdown == FieldNamed("TaxDetails").value_array

\* the document has a non-empty breakdown that is read without a fault
BreakdownRead ==
  /\ Assembled
  /\ HasField("TaxDetails") /\ TruthyArray(FieldNamed("TaxDetails"))
  /\ ~ArrayRaises(Breakdown, TaxKeys)

\* the label the final receipt gives the synthesized entry
GenericLabel == << "H", "S", "T", "/", "G", "S", "T" >>

\* the final tax details hold a synthesized entry
SynthesizedEntry ==
  \E k \in DOMAIN result.transaction.tax_details.tax_types :
    result.transaction.tax_details.tax_types[k] = GenericLabel

\* the final tax details hold the synthesized entry and nothing else
SingleSynthesizedEntry ==
  /\ TopLevelTax # NoneV
  /\ result.transaction.tax_details.tax_types = << GenericLabel >>
  /\ result.transaction.tax_details.tax_amounts = << TopLevelTax.n >>

\* C14: the final tax_details hold a single synthesized entry with type
\* "HST/GST" and the top-level TotalTax as amount exactly when a regional
\* tax number was found, a parsable TotalTax is present and the document
\* has no TaxDetails breakdown; with a breakdown present, in any order of
\* the fields, no synthesized entry is in the final tax_amounts/tax_types.
C14_SynthesizedEntry ==
  /\ (Assembled /\ ~HasField("TaxDetails")) =>
       /\ SynthesizedEntry <=>
            /\ result.merchant.gst_hst_number # << >>
            /\ HasField("TotalTax") /\ TopLevelTax # NoneV
       /\ SynthesizedEntry => SingleSynthesizedEntry
  /\ BreakdownRead => ~SynthesizedEntry

\* without a breakdown the synthesized entry is as claimed; with a breakdown
\* whose entries all have an amount there is none
SynthesizedEntryWithAmounts ==
  /\ (Assembled /\ ~HasField("TaxDetails")) =>
       /\ SynthesizedEntry <=>
            /\ result.merchant.gst_hst_number # << >>
            /\ HasField("TotalTax") /\ TopLevelTax # NoneV
       /\ SynthesizedEntry => SingleSynthesizedEntry
  /\ (BreakdownRead /\ EveryEntryHasAmount(Breakdown)) => ~SynthesizedEntry

\* the amounts of the breakdown entries that have one, in order
RECURSIVE BreakdownAmounts(_)
BreakdownAmounts(arr) ==
  IF arr = << >> THEN << >>
  ELSE (IF Head(arr).object = "map" /\ CurrencyOf(Head(arr).value_object, "Amount") # NoneV
        THEN << CurrencyOf(Head(arr).value_object, "Amount").n >> ELSE << >>)
       \o BreakdownAmounts(Tail(arr))

\* no TotalTax field follows the breakdown
NoTotalTaxFollows ==
  HasField("TotalTax") => IndexOf("TotalTax") < IndexOf("TaxDetails")

\* C15: when a non-empty breakdown is processed and no TotalTax field
\* follows it, total_tax is the sum of the amounts of the entries that have
\* one; entries without an amount add nothing and give no entry of
\* tax_amounts. The breakdown [{HST, 13%, 13.00}] without a top-level total
\* gives total_tax 13.00, has_hst true and tax_rates [0.13].
C15_TotalTaxIsBreakdownSum ==
  (BreakdownRead /\ NoTotalTaxFollows) =>
    /\ result.transaction.tax_details.total_tax = FloatStr(BreakdownSum(Breakdown))
    /\ result.transaction.tax = FloatStr(BreakdownSum(Breakdown))
    /\ result.transaction.tax_details.tax_amounts = BreakdownAmounts(Breakdown)
    /\ (Breakdown = << HstThirteen >> /\ ~HasField("TotalTax")) =>
         /\ result.transaction.tax_details.total_tax = << "1", "3", ".", "0" >>
         /\ result.transaction.tax_details.has_hst
         /\ result.transaction.tax_details.tax_rates = << 13 >>

C15_Witness ==
  /\ BreakdownRead /\ NoTotalTaxFollows
  /\ Len(Breakdown) = 2
  /\ Breakdown[2] = HstThirteen
  /\ CurrencyOf(Breakdown[1].value_object, "Amount") = NoneV
  /\ TaxType(Breakdown[1].value_object) # << >>
  /\ result.transaction.tax_details.total_tax = << "1", "3", ".", "0" >>
  /\ result.transaction.tax_details.tax_amounts = << 1300 >>

\* an entry of the breakdown has a type label that names a regional tax
RegionalLabelPresent ==
  \E k \in DOMAIN Breakdown :
    /\ Breakdown[k].object = "map"
    /\ "Description" \in DOMAIN Breakdown[k].value_object
    /\ \E lbl \in { << "H", "S", "T" >>, << "G", "S", "T" >>, << "P", "S", "T" >> } :
         Contains(lbl, Upper(StrOr(ExtractFieldValue(Breakdown[k].value_object.Description))))

\* C16: if an entry of the breakdown has a type label containing HST, GST or
\* PST in any letter case, the final has_hst is true, also when that entry
\* has no amount.
C16_RegionalLabelSetsFlag ==
  (BreakdownRead /\ RegionalLabelPresent) => result.transaction.tax_details.has_hst

\* the flag is set by the labelled entries that have an amount
RegionalLabelWithAmountSetsFlag ==
  (BreakdownRead /\ RegionalLabelPresent /\ EveryEntryHasAmount(Breakdown)) =>
    result.transaction.tax_details.has_hst


\* ------------------------------------------------------------------------
\* Properties of the Field Extractor
\* ------------------------------------------------------------------------
\* _extract_field_value has been called with a well-formed field and has
\* ended
Extracted ==
  /\ call.fn = "_extract_field_value"
  /\ call.state # "called"
  /\ call.arg # NoneV
  /\ ~call.arg.raises

\* the kinds whose typed accessor the contract names
TypedKinds == {"string", "number", "integer", "date", "phoneNumber", "currency"}

\* the field carries a value under the typed accessor of its kind
TypedAvailable(f) ==
  f.kind \in TypedKinds /\ f.accessor = AccessorOf(f.kind) /\ f.typed # NoneV

\* the field has a non-empty display text
ContentAvailable(f) == f.content # NoneV /\ f.content # EmptyStr

\* what the contract of _extract_field_value asks of the value returned
\* for field f; it is silent on a field of another kind without a display
\* text
ExtractContract(f, ret) ==
  IF ContentAvailable(f) THEN ret = f.content
  ELSE IF TypedAvailable(f) THEN ret = f.typed
  ELSE f.kind \in TypedKinds \cup {"array"} => ret = NoneV

\* C17: _extract_field_value returns the display text when it is present
\* and non-empty, otherwise the value of the typed accessor matching the
\* declared kind (a date as its text), and None, without raising, when
\* neither is available.
C17_ContentThenTyped ==
  Extracted => call.state = "returned" /\ ExtractContract(call.arg, call.ret)

\* a date field without a display text whose value_date is None
DateWithoutValue(f) ==
  /\ f.kind = "date"
  /\ f.accessor = "value_date"
  /\ f.typed = NoneV
  /\ f.content = NoneV

\* What the code does: a display text that is not None wins even when it
\* is empty, and a date field whose value_date is None gives the text
\* "None"; everywhere else the contract of C17 holds.
ContentThenTypedElsewhere ==
  (Extracted /\ call.arg.content # EmptyStr /\ ~DateWithoutValue(call.arg)) =>
    call.state = "returned" /\ ExtractContract(call.arg, call.ret)

\* an empty display text is returned in place of the typed value
EmptyContentWins ==
  (Extracted /\ call.arg.content = EmptyStr) => call.ret = EmptyStr


\* ------------------------------------------------------------------------
\* Properties of the Value Normalizers
\* ------------------------------------------------------------------------
\* the two currency normalizers of the program
CurrencyNormalizers == {"_clean_currency", "normalize_currency"}

\* a currency normalizer has been called with a text and has ended
CurrencyTextDone ==
  /\ call.fn \in CurrencyNormalizers
  /\ call.state # "called"
  /\ IsStr(call.arg)

\* the text left after currency symbols, commas, whitespace and letters
\* are stripped
Stripped(s) == Strip(s, {"$", ","} \cup Whitespace \cup Letters)

\* empty, more than one '-', or a '-' that is not the first character
Rejected(c) ==
  \/ c = << >>
  \/ Count("-", c) > 1
  \/ Count("-", c) = 1 /\ c[1] # "-"

\* a single leading '-' before a number
LeadingMinus(c) == ~Rejected(c) /\ Count("-", c) = 1 /\ FloatOk(c)

\* what the contract asks of the value returned for text s
CurrencyContract(s, ret) ==
  LET c == Stripped(s) IN
    /\ Rejected(c) => ret = NoneV
    /\ LeadingMinus(c) => ret = Num(FloatVal(c))

\* C18: for a text that, once currency symbols, commas, whitespace and
\* letters are stripped, is empty, holds more than one '-' or holds a '-'
\* anywhere but first, the currency normalizer returns None and never
\* raises; for a single leading '-' it returns the negative amount.
C18_SignHandling ==
  CurrencyTextDone =>
    call.state = "returned" /\ CurrencyContract(call.arg.s, call.ret)

\* _clean_currency alone meets the contract of C18
CleanCurrencySignHandling ==
  (CurrencyTextDone /\ call.fn = "_clean_currency") =>
    call.state = "returned" /\ CurrencyContract(call.arg.s, call.ret)

\* normalize_currency drops every '-': it never returns a negative amount,
\* and it returns an amount whenever digits with at most one '.' are left
NormalizeCurrencyDropsSign ==
  (CurrencyTextDone /\ call.fn = "normalize_currency") =>
    /\ call.state = "returned"
    /\ call.ret # NoneV => call.ret.n >= 0
    /\ LeadingMinus(Stripped(call.arg.s)) =>
         call.ret = Num(0 - FloatVal(Stripped(call.arg.s)))

\* a currency normalizer has returned from the formatted amount d
Formatted(d) ==
  /\ call.fn \in CurrencyNormalizers
  /\ call.state = "returned"
  /\ \E l \in Layouts : call.arg = Str(Format(d, l))

\* C19: for every amount d of the bounded set, negative ones included,
\* the currency normalizer applied to d formatted with a currency symbol,
\* comma thousands separators and surrounding whitespace gives back d.
C19_RoundTrip == \A d \in Amounts : Formatted(d) => call.ret = Num(d)

\* _clean_currency alone gives back every formatted amount
CleanCurrencyRoundTrip ==
  \A d \in Amounts :
    (Formatted(d) /\ call.fn = "_clean_currency") => call.ret = Num(d)

\* normalize_currency gives back the magnitude of the formatted amount
NormalizeCurrencyRoundTrip ==
  \A d \in Amounts :
    (Formatted(d) /\ call.fn = "normalize_currency") => call.ret = Num(Abs(d))

\* the text has no number in it once all but digits and '.' are dropped
Unparsable(s) == ~FloatOk(Filter(s, Digits \cup {"."}))

\* what the contract asks of the text returned by the first call
QuantityContract(x, ret) ==
  /\ x \in {NoneV, EmptyStr} => ret = << "1" >>
  /\ (IsNumber(x) /\ x.n % 100 = 0) =>
       Count(".", ret) = 0 /\ FloatOk(ret) /\ FloatVal(ret) = x.n
  /\ (IsStr(x) /\ Unparsable(x.s)) => ret = << "1" >>

\* C20: _clean_quantity applied to its own result gives that result again,
\* for every input (None, empty, a text or a number, zero and negative
\* numbers included); None or the empty text gives "1", a whole number is
\* rendered without a fractional part, and unparsable text gives "1".
C20_QuantityIdempotent ==
  call.fn = "_clean_quantity" =>
    /\ call.state = "returned" => QuantityContract(call.arg, call.ret.s)
    /\ call.state = "returned again" => call.ret = call.arg

\* the first call meets its contract on every input
QuantityFirstCall ==
  (call.fn = "_clean_quantity" /\ call.state = "returned") =>
    QuantityContract(call.arg, call.ret.s)

\* the second call changes the result of the first exactly when that
\* result has a sign, which it drops
QuantitySecondCallDropsSign ==
  (call.fn = "_clean_quantity" /\ call.state = "returned again") =>
    IF Head(call.arg.s) = "-" THEN call.ret.s = Tail(call.arg.s)
    ELSE call.ret = call.arg


\* ------------------------------------------------------------------------
\* Properties of the Categorizer
\* ------------------------------------------------------------------------
\* the display labels, in the order of the table
Labels ==
  << << "G", "r", "o", "c", "e", "r", "i", "e", "s" >>,
     << "H", "o", "u", "s", "e", "h", "o", "l", "d" >>,
     << "P", "e", "r", "s", "o", "n", "a", "l", " ", "C", "a", "r", "e" >>,
     << "D", "i", "n", "i", "n", "g" >>,
     << "T", "r", "a", "n", "s", "p", "o", "r", "t", "a", "t", "i", "o", "n" >>,
     << "E", "n", "t", "e", "r", "t", "a", "i", "n", "m", "e", "n", "t" >> >>

\* _categorize_item has returned
Categorized == call.fn = "_categorize_item" /\ call.state = "returned"

\* the lower-cased description of the call
LowerDescription == IF IsStr(call.arg) THEN Lower(call.arg.s) ELSE << >>

\* category c has a keyword in the lower-cased description
Hit(c) ==
  \E k \in DOMAIN CategoryMappings[c].keywords :
    Contains(CategoryMappings[c].keywords[k], LowerDescription)

\* C21: _categorize_item returns the display label of the first category,
\* in the order groceries, household, personal_care, dining,
\* transportation, entertainment, that has a keyword in the lower-cased
\* description, "Groceries" when none has, and always one of the six labels.
C21_FirstMatchingCategory ==
  Categorized =>
    /\ \E c \in 1..6 : call.ret = Str(Labels[c])
    /\ \A c \in 1..6 :
         (Hit(c) /\ \A o \in 1..(c - 1) : ~Hit(o)) => call.ret = Str(Labels[c])
    /\ (\A c \in 1..6 : ~Hit(c)) => call.ret = Str(Labels[1])

\* a description with keywords of two categories got the earlier one
C21_Witness ==
  /\ Categorized
  /\ Hit(2) /\ Hit(3) /\ ~Hit(1)
  /\ call.ret = Str(Labels[2])

\* the description holds both "bag" and "reusable"
ReusableBag ==
  /\ Contains(<< "b", "a", "g" >>, LowerDescription)
  /\ Contains(<< "r", "e", "u", "s", "a", "b", "l", "e" >>, LowerDescription)

\* C22: a description holding both "bag" and "reusable", in any letter
\* case, is categorized "Household", also when it holds a keyword of an
\* earlier category.
C22_ReusableBagIsHousehold ==
  (Categorized /\ ReusableBag) => call.ret = Str(Labels[2])

\* What the code does: the rule for reusable bags comes after the table,
\* so it decides nothing; a reusable bag is "Household" only when no
\* groceries keyword is in the description.
ReusableBagWithoutGroceries ==
  (Categorized /\ ReusableBag) =>
    call.ret = IF Hit(1) THEN Str(Labels[1]) ELSE Str(Labels[2])


\* ------------------------------------------------------------------------
\* Properties of the Summary Aggregator
\* ------------------------------------------------------------------------
\* generate_summary_report has returned
Summarized == call.fn = "generate_summary_report" /\ call.state = "returned"

\* the decimal a result text stands for, in hundredths; nothing when absent
Decimal(text) == IF text = << >> THEN 0 ELSE FloatVal(text)

\* the sum of the transaction totals that are present
RECURSIVE SumTotals(_)
SumTotals(results) ==
  IF results = << >> THEN 0
  ELSE Decimal(Head(results).transaction.total) + SumTotals(Tail(results))

\* C23: for every list of receipts, the empty list and lists with
\* duplicate ids included, total_spending is the sum of the transaction
\* totals that are present (a receipt without a total adds nothing and
\* raises nothing) and receipt_count is the length of the list.
C23_SpendingAndCount ==
  Summarized =>
    /\ call.ret.total_spending = SumTotals(call.arg.items)
    /\ call.ret.receipt_count = Len(call.arg.items)

\* two receipts with the same id, totals 10.00 and absent
C23_Witness ==
  /\ Summarized
  /\ Len(call.arg.items) = 2
  /\ call.arg.items[1].image_id = call.arg.items[2].image_id
  /\ call.arg.items[1].transaction.total # << >>
  /\ call.arg.items[2].transaction.total = << >>
  /\ call.ret.total_spending = 1000
  /\ call.ret.receipt_count = 2

\* the items of all receipts, in the order they are read
RECURSIVE AllItems(_)
AllItems(results) ==
  IF results = << >> THEN << >> ELSE Head(results).items \o AllItems(Tail(results))

\* the sum of the line totals of the items categorized into c
RECURSIVE CategorySum(_, _)
CategorySum(items, c) ==
  IF items = << >> THEN 0
  ELSE (IF CategorizeItem(Str(Head(items).description)) = c
        THEN Decimal(Head(items).total) ELSE 0) + CategorySum(Tail(items), c)

\* the position of the first item with a line total categorized into c
FirstSeen(items, c) ==
  CHOOSE k \in DOMAIN items :
    /\ items[k].total # << >> /\ CategorizeItem(Str(items[k].description)) = c
    /\ \A m \in 1..(k - 1) :
         ~(items[m].total # << >> /\ CategorizeItem(Str(items[m].description)) = c)

\* every item is counted, every category with a priced item is listed
\* once with the sum of its line totals, in descending order of total
TotalsDescending(items, report) ==
  LET cats == report.categories IN
    /\ report.item_count = Len(items)
    /\ { cats[k].category : k \in DOMAIN cats } =
         { CategorizeItem(Str(items[k].description)) :
             k \in { m \in DOMAIN items : items[m].total # << >> } }
    /\ \A j, k \in DOMAIN cats : j # k => cats[j].category # cats[k].category
    /\ \A k \in DOMAIN cats : cats[k].total = CategorySum(items, cats[k].category)
    /\ \A j, k \in DOMAIN cats : j < k => cats[j].total >= cats[k].total

\* categories with equal totals stand in the order they were first met
TiesInFirstMetOrder(items, report) ==
  LET cats == report.categories IN
    \A j, k \in DOMAIN cats :
      (j < k /\ cats[j].total = cats[k].total) =>
        FirstSeen(items, cats[j].category) < FirstSeen(items, cats[k].category)

\* C24: each category's total is the sum of the line totals of the items
\* categorized into it (an item without a line total is counted in
\* item_count and adds nothing), the categories are listed in descending
\* order of total, and categories with equal totals keep the order in
\* which they were first encountered.
C24_CategoryTotalsOrdered ==
  Summarized =>
    /\ TotalsDescending(AllItems(call.arg.items), call.ret)
    /\ TiesInFirstMetOrder(AllItems(call.arg.items), call.ret)

\* What the code does: the totals and the descending order hold; the sort
\* compares the float sums before they are rounded, so of two categories
\* with equal totals the one whose float sum is larger comes first.
CategoryTotalsDescending ==
  Summarized => TotalsDescending(AllItems(call.arg.items), call.ret)

\* 0.1 + 0.2 is a larger float than 0.3
FloatSumExceedsDecimal ==
  Summarized => FloatLess(FloatOf(30), FloatAdd(FloatOf(10), FloatOf(20)))


\* ------------------------------------------------------------------------
\* Properties of the Row Projectors
\* ------------------------------------------------------------------------
\* _prepare_excel_data has returned
Prepared == call.fn = "_prepare_excel_data" /\ call.state = "returned"

\* the (receipt, item) pairs in receipt order and then item order
RECURSIVE Pairs(_)
Pairs(results) ==
  IF results = << >> THEN << >>
  ELSE [k \in DOMAIN Head(results).items |->
          [receipt |-> Head(results), item |-> Head(results).items[k]]]
       \o Pairs(Tail(results))

\* C25: _prepare_excel_data emits exactly one item row per (receipt, item)
\* pair, in receipt order and then item order, each with that receipt's
\* id, date and merchant, empty Notes and a Category that is never
\* "Other"; and exactly one receipt-summary row per receipt, also for a
\* receipt without items.
C25_OneRowPerPair ==
  Prepared =>
    LET results == call.arg.items
        pairs == Pairs(results)
        rows == call.ret.items_data
        summaries == call.ret.receipt_data
    IN /\ Len(rows) = Len(pairs)
       /\ \A k \in DOMAIN rows :
            /\ rows[k].receipt_id = pairs[k].receipt.image_id
            /\ rows[k].date = pairs[k].receipt.transaction.date
            /\ rows[k].merchant = pairs[k].receipt.merchant.name
            /\ rows[k].description = pairs[k].item.description
            /\ rows[k].notes = << >>
            /\ rows[k].category # << "O", "t", "h", "e", "r" >>
       /\ Len(summaries) = Len(results)
       /\ \A k \in DOMAIN summaries : summaries[k].receipt_id = results[k].image_id

\* two receipts, the first without items, the second with two
C25_Witness ==
  /\ Prepared
  /\ Len(call.arg.items) = 2
  /\ call.arg.items[1].items = << >>
  /\ Len(call.arg.items[2].items) = 2
  /\ Len(call.ret.receipt_data) = 2
  /\ Len(call.ret.items_data) = 2
  /\ call.ret.items_data[2].merchant = call.arg.items[2].merchant.name


\* save_results has returned for a non-empty list after the primary Excel
\* save failed
PrimaryFailed ==
  /\ call.fn = "save_results"
  /\ call.state = "returned"
  /\ call.arg.items # << >>
  /\ call.arg.env.excel # "saved"

\* C28: when the primary Excel save fails inside save_results, the
\* simplified Excel save is attempted, and the excel_path returned is None
\* rather than the path of an .xlsx file that was not written.
C28_FallbackAfterPrimaryFailure ==
  PrimaryFailed =>
    /\ "simple" \in call.tried
    /\ call.ret.excel_path = NoneV

\* What the code does: _save_results_excel returns the path of its CSV
\* fallback when the workbook fails, which save_results takes for success;
\* the simplified save is never run and the .xlsx path is returned although
\* no such file was written.
PrimaryFailureTakenForSuccess ==
  PrimaryFailed =>
    /\ "simple" \notin call.tried
    /\ call.ret.excel_path = Str(XlsxPath)
    /\ XlsxPath \notin call.files

\* a projector has returned
Projected ==
  /\ call.fn \in {"_save_results_excel", "_save_results_csv", "_prepare_excel_data"}
  /\ call.state = "returned"

\* the item rows the projector built
ProjectedRows == IF call.fn = "_prepare_excel_data" THEN call.ret.items_data ELSE call.rows

\* the number a cell holds, in hundredths; an empty cell holds nothing
Cell(value) == IF value = NoneV THEN 0 ELSE value.n

\* the row carries what the Item Builder stored in the item
CarriesStored(row, item) ==
  /\ row.tax_status = item.tax_status
  /\ Cell(row.tax_amount) = Decimal(item.tax_amount)
  /\ Cell(row.final_price) = Decimal(item.final_price)
  /\ row.category = CategorizeItem(Str(item.description))

\* C30: the row built by _save_results_excel, the row built by
\* _save_results_csv and the row built by _prepare_excel_data carry, for
\* every item of every receipt, the same Tax Status, Tax Amount, Final
\* Price and Category: those the Item Builder stored in the item, with the
\* category given by _categorize_item.
C30_ProjectorsAgree ==
  Projected =>
    LET pairs == Pairs(call.arg.items) IN
      /\ Len(ProjectedRows) = Len(pairs)
      /\ \A k \in DOMAIN pairs : CarriesStored(ProjectedRows[k], pairs[k].item)

\* What the code does: only _prepare_excel_data carries the stored values.
PrepareCarriesStored ==
  (Projected /\ call.fn = "_prepare_excel_data") =>
    \A k \in DOMAIN ProjectedRows :
      CarriesStored(ProjectedRows[k], Pairs(call.arg.items)[k].item)

\* _save_results_csv reads a "category" key the items do not have
CsvCategoryEmpty ==
  (Projected /\ call.fn = "_save_results_csv") =>
    \A k \in DOMAIN ProjectedRows :
      /\ ProjectedRows[k].category = << >>
      /\ ProjectedRows[k].tax_status = Pairs(call.arg.items)[k].item.tax_status

\* _save_results_excel derives the tax columns from the description alone
ExcelRecomputesTax ==
  (Projected /\ call.fn = "_save_results_excel") =>
    \A k \in DOMAIN ProjectedRows :
      ProjectedRows[k].tax_status =
        IF IsReusableBag(ProjectedRows[k].description) THEN "TAXABLE" ELSE "EXEMPT"


\* ------------------------------------------------------------------------
\* Properties of the payment fields
\* ------------------------------------------------------------------------
\* the PaymentDetails array, empty when the field is missing or no list
PaymentEntries ==
  IF HasField("PaymentDetails") /\ FieldNamed("PaymentDetails").array = "list"
  THEN FieldNamed("PaymentDetails").value_array ELSE << >>

\* the text entry e of PaymentDetails supplies under key, empty when none
Supplied(e, key) ==
  IF e.object # "map" THEN << >>
  ELSE IF key \notin DOMAIN e.value_object THEN << >>
  ELSE IF e.value_object[key] # NoneV /\ e.value_object[key].raises THEN << >>
  ELSE IF key = "Amount" THEN StrOpt(CurrencyOf(e.value_object, key))
  ELSE StrOr(ExtractFieldValue(e.value_object[key]))

\* the text of the first entry of PaymentDetails that supplies key
FirstSupplied(key) ==
  LET arr == PaymentEntries
      hits == { k \in DOMAIN arr : Supplied(arr[k], key) # << >> }
  IN IF hits = {} THEN << >>
     ELSE Supplied(arr[CHOOSE k \in hits : \A o \in hits : k <= o], key)

\* the payment type and amount are those of PaymentDetails when it
\* supplies them
FromPaymentDetails ==
  /\ FirstSupplied("PaymentType") # << >> =>
       result.payment.type = FirstSupplied("PaymentType")
  /\ FirstSupplied("Amount") # << >> =>
       result.payment.amount = FirstSupplied("Amount")

\* C26: in every assembled receipt, for any order of the fields, the
\* payment amount and type are those of the first PaymentDetails entry that
\* supplies them whenever PaymentDetails supplies them; the AmountTendered
\* and PaymentType fields are used only when it does not.
C26_PaymentDetailsFirst == Assembled => FromPaymentDetails

\* What the code does: each value is written by the first field, in
\* iteration order, that supplies it; PaymentDetails decides when it comes
\* before the AmountTendered and PaymentType fields.
PaymentDetailsBeforeSeparateFields ==
  /\ HasField("PaymentDetails")
  /\ HasField("PaymentType") => IndexOf("PaymentDetails") < IndexOf("PaymentType")
  /\ HasField("AmountTendered") => IndexOf("PaymentDetails") < IndexOf("AmountTendered")

PaymentFirstWriterWins ==
  (Assembled /\ PaymentDetailsBeforeSeparateFields) => FromPaymentDetails

\* a PaymentType field read before PaymentDetails keeps its value
SeparateFieldFirstWins ==
  (/\ Assembled
   /\ HasField("PaymentType") /\ HasField("PaymentDetails")
   /\ IndexOf("PaymentType") < IndexOf("PaymentDetails")
   /\ ~Bad(FieldNamed("PaymentType"))) =>
    result.payment.type = StrOr(ExtractFieldValue(FieldNamed("PaymentType")))


\* ------------------------------------------------------------------------
\* Properties of analyze_receipt
\* ------------------------------------------------------------------------
\* the call has ended and its value is with the caller
AnalyzeDone == call.fn = "analyze_receipt" /\ call.state = "done"

\* the value is a receipt dict
IsReceiptDict(v) == v # NoneV /\ DOMAIN v = DOMAIN GetEmptyResult(NoneV)

\* seconds since the polling loop began
Waited == call.now - call.start_time

NoImage == ~Truthy(call.arg.image_url) /\ ~Truthy(call.arg.image_data)

\* how the polling loop ended, by the last message logged
AnalyzeOutcome ==
  AnalyzeDone =>
    /\ IsReceiptDict(call.ret)
    /\ NoImage => (/\ call.log = "no image"
                   /\ call.requests = 0
                   /\ call.ret = GetEmptyResult(call.arg.image_id))
    /\ call.log = "failed" =>
         call.ret = GetEmptyResult(call.image_name) /\ ~call.cancelled
    /\ call.log = "timed out" =>
         /\ call.cancelled
         /\ call.ret = GetEmptyResult(call.image_name)
    /\ call.cancelled => Waited > MaxWaitTime
    /\ call.log = "processed" =>
         /\ call.ret = result
         /\ pc = "done"
         /\ image_id = call.image_name
         /\ ~call.cancelled

\* the loop is not left running: a pass that begins after the limit is
\* the last one
PollingBounded ==
  (call.fn = "analyze_receipt" /\ call.state = "poll") =>
    Waited <= MaxWaitTime + PollInterval

\* C27: every call of analyze_receipt ends and hands a receipt dict to the
\* caller; after status "succeeded" the result is processed, after "failed"
\* the empty result is returned, after more than 60 seconds without either
\* the poller is cancelled and the empty result returned, and a call
\* without image_url and image_data returns the empty result with no
\* request submitted.
C27_AnalyzeTerminates ==
  /\ <>AnalyzeDone
  /\ [](AnalyzeOutcome /\ PollingBounded)

\* a call that ended by the timeout
C27_Witness ==
  /\ AnalyzeDone
  /\ call.log = "timed out"
  /\ call.cancelled
  /\ Waited > MaxWaitTime
  /\ call.requests = 1

\* the messages logged when a call fails after the argument check
FailureLogs ==
  {"http error", "error", "failed", "timed out", "no documents", "retrieve error"}

\* C29: a call of analyze_receipt submits at most one request and stays in
\* the decorator's first attempt: no exception reaches the decorator, and
\* every failure after the argument check ends in the empty result.
C29_OneRequestOneAttempt ==
  call.fn = "analyze_receipt" =>
    /\ call.requests <= 1
    /\ call.attempt = 1
    /\ call.state \notin {"raised", "retry error"}
    /\ (call.state \in {"returned", "done"} /\ call.log \in FailureLogs) =>
         call.ret = GetEmptyResult(call.image_name)

\* a call that failed inside the service after its one request
C29_Witness ==
  /\ AnalyzeDone
  /\ call.log = "http error"
  /\ call.requests = 1
  /\ call.attempt = 1
  /\ call.ret = GetEmptyResult(call.image_name)

====
